---- MODULE Spec2Model ----
(***************************************************************************)
(* Model of the WebSocket client of hyperquant: WSClient (src/__init__.py) *)
(* with its platform subclasses BitMEXWSClient and BinanceWSClient.        *)
(*                                                                         *)
(* Threads: one user thread calling the public operations, and one         *)
(* background thread per WebSocketApp (run_forever), which runs the        *)
(* callbacks _on_open, _on_message and _on_close.  The code never takes    *)
(* WSClient.lock, so the handlers interleave; the model yields at every    *)
(* sleep (backoff, throttle) and between the copy and the update of        *)
(* current_subscriptions in the subscribe() that _on_open performs.        *)
(*                                                                         *)
(* Platforms:                                                              *)
(*   "Generic"  command-capable, url does not carry the subscriptions      *)
(*              (base WSClient with a _send_subscribe that sends commands) *)
(*   "BitMEX"   command-capable, url carries the subscriptions             *)
(*   "Binance"  no subscribe command, url carries the subscriptions        *)
(***************************************************************************)
EXTENDS Integers, Sequences, FiniteSets, TLC

\* ------------------------------------------------------------------ bounds
MaxSock == 3
MaxCalls == 3
MaxPairCalls == 4
MaxDrops == 5
MaxApiCalls == 3
MaxMsgCalls == 2
MaxItems == 2
MaxRows == 4
MaxSize == 2
MaxBookOps == 3
MaxFan == 3
MaxList == 4
MaxTs == 3
MaxDelay == 2
MaxResponses == 3
MaxNow == 61
MaxPerMinute == 3
MaxBatch == 3
MaxStored == 7

\* ------------------------------------------------------- program constants
reconnect_count == 3
default_reconnect_delay_sec == 3
BackoffCap == 8

Platforms == {"Generic", "BitMEX", "Binance"}
PublicEndpoints == {"trade", "quote"}
PrivateEndpoints == {"balance"}
Endpoints == PublicEndpoints \cup PrivateEndpoints
\* converter.supported_endpoints, and an endpoint that is not among them
supported_endpoints == Endpoints
UnsupportedEndpoints == {"other"}
Symbols == {"X"}
NoSymbol == ""

\* None for the endpoints and symbols arguments
NoArgs == [e |-> {}, s |-> {}]
\* The calls the user makes: one endpoint and one symbol
UserArgs == {[e |-> {e}, s |-> {s}] : e \in Endpoints, s \in Symbols}

\* The calls of the interface: also without arguments, and for an endpoint
\* the platform does not support
ApiArgs ==
    UserArgs \cup {NoArgs}
             \cup {[e |-> {e}, s |-> {s}] : e \in UnsupportedEndpoints, s \in Symbols}

SockIds == 1..(IF MaxSock > MaxDrops THEN MaxSock ELSE MaxDrops)

VARIABLES
    platform,               \* which client class this is
    current_subscriptions,
    pending_subscriptions,
    successful_subscriptions,
    failed_subscriptions,
    symbols_by_endpoint,
    stored,                 \* keys of converter.endpoint_symbol_params_by_subscription
    is_private,             \* BinanceWSClient.is_private: "None", "True", "False"
    is_started,
    is_reconnecting,
    reconnect_tries,
    reconnect_delay_sec,
    cfg_reconnect_count,    \* reconnect_count as the application configured it
    cfg_reconnect_delay_sec, \* reconnect_delay_sec as the application configured it
    sock_limit,             \* WebSocketApps this behaviour may create
    call_limit,             \* calls the user makes in this behaviour
    has_rest_helper,        \* BinanceWSClient.rest_helper is not None
    is_subscribed_with_url,
    ws,                     \* index of the WebSocketApp in self.ws, 0 for None
    queue,                  \* connecting_message_queue
    nsock,                  \* WebSocketApps created so far
    sock,                   \* the WebSocketApps and their transport state
    tpc,                    \* position of each background thread
    tcopy,                  \* the copy subscribe() holds inside _on_open
    upc,                    \* position of the user thread
    ucalls,                 \* user calls made
    intended,               \* the user's calls applied in order to the empty set
    user_closed,            \* close() was the user's last call
    g_open,                 \* what the last completed _on_open left unsent
    g_close,                \* the decision of the last close event
    g_attempts,             \* reconnect attempts since construction or the last open
    g_pair,                 \* a subscribe from empty, for the following unsubscribe
    g_data,                 \* the last item handed to on_data
    g_raced,                \* a subscribe() ran while a close handler was reconnecting
    data_buffer,            \* _data_buffer, one for all threads
    tmsg,                   \* the parse results a thread's _on_message still has to go through
    tcb,                    \* the items that _on_message has handed to on_data_item
    tbl_keys,               \* BitMEXWSConverterV1.keys has the table
    tbl_rows,               \* the rows of BitMEXWSConverterV1.data[table]
    g_msg,                  \* the last message a thread has finished with
    prev_order_book_data,   \* BitMEXWSConverterV1.prev_order_book_data_by_subscription[subscription]
    g_book,                 \* the book the platform holds and the last book emitted
    g_priv,                 \* the last message of a private stream and what _parse returned
    g_info,                 \* the last message given to get_subscription_info and the result
    endpoint_symbol_params_by_subscription, \* of the converter, with the params
    g_filter,               \* the last fetch with from_item and to_item, and its result
    ratelimit_error_in_row_count,   \* of the REST client
    delay_before_next_request_sec,  \* of the REST client
    g_rate,                 \* the last two results of _send and the delay before the last
    g_conv,                 \* the last value translated to the platform and back
    g_ack,                  \* the platform's last answer to a subscribe command
    throttle_counter,       \* WSClient.throttle_counter: [minute, count]
    now,                    \* the wall clock, in minutes since the client was made
    g_throttle,             \* the reconnects of the current minute and the last delay
    data,                   \* BitMEXWSConverterV1.data: table -> list of rows
    g_table,                \* the last table message and the list it found
    g_call                  \* the user's last call: its arguments, the state it
                            \* found, what it sent and what it left on return

cvars == <<current_subscriptions, pending_subscriptions,
           successful_subscriptions, failed_subscriptions, symbols_by_endpoint,
           stored, is_private, is_started, is_reconnecting, reconnect_tries,
           reconnect_delay_sec, is_subscribed_with_url, ws, queue, nsock,
           sock>>

config == <<platform, cfg_reconnect_count, cfg_reconnect_delay_sec, sock_limit,
            call_limit, has_rest_helper>>

ghosts == <<intended, user_closed, g_open, g_close, g_attempts, g_pair, g_data,
            g_raced, g_call>>

mvars == <<data_buffer, tmsg, tcb, tbl_keys, tbl_rows, g_msg>>

\* the client and its threads
wsvars == <<config, cvars, tpc, tcopy, upc, ucalls, ghosts>>

\* the converters' state outside the subscriptions
bookvars == <<prev_order_book_data, g_book>>
privvars == <<g_priv>>
infovars == <<g_info>>
storevars == <<endpoint_symbol_params_by_subscription>>
filtervars == <<g_filter>>
ratevars == <<ratelimit_error_in_row_count, delay_before_next_request_sec, g_rate>>
convvars == <<g_conv>>
ackvars == <<g_ack>>
throttlevars == <<throttle_counter, now, g_throttle>>
tablevars == <<data, g_table>>
latevars == <<ackvars, throttlevars, tablevars>>
rvars == <<bookvars, privvars, infovars, storevars, filtervars, ratevars, convvars, latevars>>

vars == <<config, cvars, tpc, tcopy, upc, ucalls, ghosts, mvars, rvars>>

\* --------------------------------------------------------- pure functions
RECURSIVE Pow2(_)
Pow2(n) == IF n = 0 THEN 1 ELSE 2 * Pow2(n - 1)

Min(a, b) == IF a < b THEN a ELSE b

IS_SUBSCRIPTION_COMMAND_SUPPORTED == platform \in {"Generic", "BitMEX"}

\* url of BitMEXWSClient and of BinanceWSClient put the subscriptions in the
\* query and set is_subscribed_with_url; url of WSClient does neither.
UrlCarriesSubscriptions == platform \in {"BitMEX", "Binance"}

\* The channel string of (endpoint, symbol): the private endpoints render
\* to a string without a symbol ("margin" on BitMEX, the virtual endpoint
\* name on Binance).
generate_subscription(e, s) ==
    IF e \in PrivateEndpoints THEN <<e, NoSymbol>> ELSE <<e, s>>

generate_subscriptions(E, S) ==
    {generate_subscription(e, s) : e \in E, s \in S}

AllSubs == generate_subscriptions(Endpoints, Symbols)

NoSock == [st |-> "none", url |-> {}, subcmd |-> {}, srv |-> {},
           orphan |-> FALSE, live |-> {}, twice |-> {}]

\* The client's fields as one value, so that the calls a handler makes
\* compose; k says what the handler still has to do after its next sleep,
\* ret what it returns ("None", "set", or "raise" for an exception that
\* leaves it), out the commands it passed to _send on a started client.
St == [current_subscriptions |-> current_subscriptions,
       pending_subscriptions |-> pending_subscriptions,
       successful_subscriptions |-> successful_subscriptions,
       failed_subscriptions |-> failed_subscriptions,
       symbols_by_endpoint |-> symbols_by_endpoint,
       stored |-> stored,
       is_private |-> is_private,
       is_started |-> is_started,
       is_reconnecting |-> is_reconnecting,
       reconnect_tries |-> reconnect_tries,
       reconnect_delay_sec |-> reconnect_delay_sec,
       is_subscribed_with_url |-> is_subscribed_with_url,
       ws |-> ws,
       queue |-> queue,
       nsock |-> nsock,
       sock |-> sock,
       k |-> "done",
       ret |-> "None",
       out |-> <<>>]

Set(c) ==
    /\ current_subscriptions' = c.current_subscriptions
    /\ pending_subscriptions' = c.pending_subscriptions
    /\ successful_subscriptions' = c.successful_subscriptions
    /\ failed_subscriptions' = c.failed_subscriptions
    /\ symbols_by_endpoint' = c.symbols_by_endpoint
    /\ stored' = c.stored
    /\ is_private' = c.is_private
    /\ is_started' = c.is_started
    /\ is_reconnecting' = c.is_reconnecting
    /\ reconnect_tries' = c.reconnect_tries
    /\ reconnect_delay_sec' = c.reconnect_delay_sec
    /\ is_subscribed_with_url' = c.is_subscribed_with_url
    /\ ws' = c.ws
    /\ queue' = c.queue
    /\ nsock' = c.nsock
    /\ sock' = c.sock

is_connected(c) == c.ws # 0 /\ c.sock[c.ws].st = "open"

is_connecting(c) == c.is_started /\ ~is_connected(c)

\* WebSocketApp.send of a subscribe or unsubscribe command: the platform
\* starts or stops streaming the named channels on that connection.  live
\* are the strings of the subscribe commands of the connection that no
\* unsubscribe command has named since, twice those a subscribe command
\* named while they were live.
ws_send(c, m) ==
    [c EXCEPT !.sock[c.ws].subcmd =
                  IF m.op = "subscribe" THEN @ \cup m.args ELSE @,
              !.sock[c.ws].srv =
                  IF m.op = "subscribe" THEN @ \cup m.args ELSE @ \ m.args,
              !.sock[c.ws].live =
                  IF m.op = "subscribe" THEN @ \cup m.args ELSE @ \ m.args,
              !.sock[c.ws].twice =
                  IF m.op = "subscribe"
                  THEN @ \cup (m.args \cap c.sock[c.ws].live) ELSE @]

\* WebSocketApp.close: keep_running = False and the socket is closed; the
\* thread of that WebSocketApp will deliver the close event.
ws_close(c) ==
    IF c.ws = 0 THEN c
    ELSE [c EXCEPT !.sock[c.ws].st = "closed", !.sock[c.ws].srv = {}]

send(c, m) ==
    IF is_connecting(c)
    THEN [c EXCEPT !.queue = Append(@, m), !.out = Append(@, m)]
    ELSE IF is_connected(c) THEN [ws_send(c, m) EXCEPT !.out = Append(@, m)]
    ELSE c

\* close() without its test of is_started: del self.ws raises on an instance
\* that has never assigned ws
close_unguarded(c) ==
    IF c.nsock = 0 THEN [c EXCEPT !.ret = "raise"]
    ELSE [ws_close(c) EXCEPT !.is_started = FALSE, !.ws = 0]

close(c) ==
    IF ~c.is_started THEN c
    ELSE [ws_close(c) EXCEPT !.is_started = FALSE, !.ws = 0]

\* BitMEXWSClient.url sets the flag always, BinanceWSClient.url on its public
\* branch only.
UrlSetsSubscribedFlag(c) ==
    \/ platform = "BitMEX"
    \/ (platform = "Binance" /\ c.is_private # "True")

\* connect() returns early without subscriptions or when already started
ConnectReturnsEarly(c) ==
    \/ c.current_subscriptions = {}
    \/ (c.ws # 0 /\ c.is_started)

\* BinanceWSClient.url reads rest_helper.listen_key on its private branch
UrlRaises(c) ==
    platform = "Binance" /\ c.is_private = "True" /\ ~has_rest_helper

connect(c) ==
    IF ConnectReturnsEarly(c) THEN c
    ELSE IF UrlRaises(c) THEN [c EXCEPT !.ret = "raise"]
    ELSE LET n == c.nsock + 1 IN
         [c EXCEPT
            !.is_started = TRUE,
            !.is_subscribed_with_url =
                IF UrlSetsSubscribedFlag(c) THEN TRUE ELSE @,
            !.ws = n,
            !.nsock = n,
            !.sock[n] =
                [st |-> "connecting",
                 url |-> IF UrlCarriesSubscriptions
                         THEN c.current_subscriptions ELSE {},
                 subcmd |-> {},
                 srv |-> IF UrlCarriesSubscriptions
                         THEN c.current_subscriptions ELSE {},
                 orphan |-> FALSE,
                 live |-> {},
                 twice |-> {}]]

\* A thread may run connect() when it creates no WebSocketApp beyond the bound
CanConnect(c) ==
    ConnectReturnsEarly(c) \/ UrlRaises(c) \/ c.nsock < sock_limit

\* a reconnect() that sleeps the reconnection delay itself before connect()
reconnect_after_delay(c) == [close(c) EXCEPT !.k = "sleep"]

\* reconnect(): close(), then throttle() sleeps, then connect()
reconnect(c) == [close(c) EXCEPT !.k = "connect"]

\* ------------------------------------------------- subscription operations
\* symbols_by_endpoint[endpoint].update(symbols) on a defaultdict(set)
sbe_update(f, E, S) ==
    [e \in DOMAIN f \cup E |->
        (IF e \in DOMAIN f THEN f[e] ELSE {}) \cup (IF e \in E THEN S ELSE {})]

\* symbols_by_endpoint[endpoint].difference_update(symbols)
sbe_difference_update(f, E, S) ==
    [e \in DOMAIN f \cup E |->
        (IF e \in DOMAIN f THEN f[e] ELSE {}) \ (IF e \in E THEN S ELSE {})]

\* _store_subscription(endpoints, symbols): with symbols None the endpoints
\* are crossed with [""] (WSConverter) or with None (BinanceWSConverterV1).
store_subscription(c, E, S) ==
    [c EXCEPT !.stored =
        @ \cup generate_subscriptions(E, IF S = {} THEN {NoSymbol} ELSE S)]

_subscribe(c, subscriptions) ==
    IF ~c.is_started THEN reconnect(c)
    ELSE IF ~IS_SUBSCRIPTION_COMMAND_SUPPORTED THEN reconnect(c)
    ELSE LET to_subscribe == subscriptions \ c.pending_subscriptions IN
         send([c EXCEPT !.pending_subscriptions = @ \cup subscriptions],
              [op |-> "subscribe", args |-> to_subscribe])

_unsubscribe(c, subscriptions) ==
    IF ~c.is_started \/ ~IS_SUBSCRIPTION_COMMAND_SUPPORTED THEN reconnect(c)
    ELSE send(c, [op |-> "unsubscribe", args |-> subscriptions])

\* _get_subscriptions_for returns (None, None, None) when none of the given
\* endpoints is supported
NoSupportedEndpoint(a) == a # NoArgs /\ a.e \cap supported_endpoints = {}

\* get_adding_subscriptions_for / get_removing_subscriptions_for
get_subscriptions_for(c, a) ==
    IF a = NoArgs THEN c.current_subscriptions
    ELSE generate_subscriptions(a.e \cap supported_endpoints, a.s)

\* The endpoints get_adding_subscriptions_for returns: the keys of
\* symbols_by_endpoint when called without arguments.
get_endpoints_for(c, a) ==
    IF a = NoArgs THEN DOMAIN c.symbols_by_endpoint ELSE a.e

\* WSClient.subscribe; with (None, None, None) _store_subscription raises
WSClient_subscribe(c, a) ==
    IF NoSupportedEndpoint(a) THEN [c EXCEPT !.ret = "raise"] ELSE
    LET got == get_subscriptions_for(c, a)
        c1 == store_subscription(c, get_endpoints_for(c, a), a.s)
        subscriptions ==
            IF ~IS_SUBSCRIPTION_COMMAND_SUPPORTED
            THEN got \ c.current_subscriptions ELSE got
        c2 == [c1 EXCEPT
                 !.symbols_by_endpoint =
                     IF a.s # {} THEN sbe_update(@, a.e, a.s) ELSE @,
                 !.current_subscriptions = @ \cup subscriptions,
                 !.ret = "set"]
    IN IF subscriptions # {} THEN _subscribe(c2, subscriptions) ELSE c2

\* WSClient.unsubscribe; with (None, None, None) its loop over the
\* endpoints raises
WSClient_unsubscribe(c, a) ==
    IF NoSupportedEndpoint(a) THEN [c EXCEPT !.ret = "raise"] ELSE
    LET subscriptions == get_subscriptions_for(c, a)
        subscribed ==
            IF c.pending_subscriptions # {}
            THEN c.pending_subscriptions \cup c.successful_subscriptions
            ELSE c.current_subscriptions
        c1 == [c EXCEPT
                 !.symbols_by_endpoint =
                     IF a.s # {} THEN sbe_difference_update(@, a.e, a.s) ELSE @,
                 !.current_subscriptions = @ \ subscriptions,
                 !.failed_subscriptions = @ \ subscriptions,
                 !.pending_subscriptions = @ \ subscriptions,
                 !.successful_subscriptions = @ \ subscriptions,
                 !.ret = "set"]
    IN _unsubscribe(c1, subscriptions \cap subscribed)

\* BinanceWSClient.subscribe raises before it has changed anything: for a
\* private endpoint on a public client, for endpoints that are all public
\* (not private) on a private client, and without endpoints.
Binance_subscribe_raises(c, a) ==
    \/ a = NoArgs
    \/ (a.e \cap PrivateEndpoints # {} /\ c.is_private = "False")
    \/ (a.e \cap PrivateEndpoints = {} /\ c.is_private = "True")

\* An endpoint of BinanceWSConverterV1.endpoint_lookup whose pattern has no
\* {symbol}
SymbolFreeEndpoints == {"ticker_all"}

\* generate_subscriptions without symbols: str.format raises KeyError for a
\* pattern with {symbol}
FormatRaises(E) == E \cap PublicEndpoints # {}

\* BinanceWSClient.subscribe has no return statement.  Its private branch
\* passes all the endpoints of the call to get_adding_subscriptions_for and
\* reconnects; its public branch then raises when the call named an
\* endpoint that is not private (k = "connect_raise").
Binance_subscribe(c, a) ==
    IF Binance_subscribe_raises(c, a) THEN [c EXCEPT !.ret = "raise"]
    ELSE IF a.e \cap PrivateEndpoints # {}
    THEN LET c0 == [c EXCEPT !.is_private = "True"] IN
         IF FormatRaises(a.e) THEN [c0 EXCEPT !.ret = "raise"]
         ELSE LET subscriptions == generate_subscriptions(a.e, {NoSymbol})
                  c1 == store_subscription(c0, a.e, {})
                  c2 == reconnect([c1 EXCEPT !.current_subscriptions =
                                       @ \cup subscriptions])
              IN IF a.e \ PrivateEndpoints # {}
                 THEN [c2 EXCEPT !.k = "connect_raise"] ELSE c2
    ELSE [WSClient_subscribe([c EXCEPT !.is_private = "False"], a)
            EXCEPT !.ret = IF @ = "raise" THEN "raise" ELSE "None"]

\* self.rest_helper.is_active = False, then reconnect()
Binance_deactivate(c) ==
    IF has_rest_helper THEN reconnect(c) ELSE [c EXCEPT !.ret = "raise"]

\* BinanceWSClient.unsubscribe returns what WSClient.unsubscribe returns for
\* public endpoints and nothing otherwise
Binance_unsubscribe(c, a) ==
    IF a = NoArgs
    THEN Binance_deactivate([c EXCEPT !.current_subscriptions = {}])
    ELSE IF a.e \cap PrivateEndpoints # {}
    THEN LET c1 == [c EXCEPT !.current_subscriptions =
                        @ \ generate_subscriptions(a.e, {NoSymbol})]
         IN IF c1.current_subscriptions = {} THEN Binance_deactivate(c1) ELSE c1
    ELSE WSClient_unsubscribe(c, a)

subscribe(c, a) ==
    IF platform = "Binance" THEN Binance_subscribe(c, a)
    ELSE WSClient_subscribe(c, a)

unsubscribe(c, a) ==
    IF platform = "Binance" THEN Binance_unsubscribe(c, a)
    ELSE WSClient_unsubscribe(c, a)

\* WSClient.resubscribe: unsubscribe() and subscribe() on a command-capable
\* platform, reconnect() otherwise.  When unsubscribe() reconnects, the
\* subscribe() follows its connect().
resubscribe(c) ==
    IF ~IS_SUBSCRIPTION_COMMAND_SUPPORTED THEN reconnect(c)
    ELSE LET c1 == WSClient_unsubscribe(c, NoArgs) IN
         IF c1.k = "connect" THEN [c1 EXCEPT !.k = "connect_subscribe", !.ret = "None"]
         ELSE [WSClient_subscribe(c1, NoArgs) EXCEPT !.ret = "None"]

\* What the call means for the set the user asked for
Intend_subscribe(I, c, a) ==
    IF \/ a = NoArgs
       \/ NoSupportedEndpoint(a)
       \/ (platform = "Binance" /\ Binance_subscribe_raises(c, a))
    THEN I
    ELSE I \cup generate_subscriptions(a.e, a.s)

Intend_unsubscribe(I, a) ==
    IF a = NoArgs THEN {}
    ELSE IF NoSupportedEndpoint(a) THEN I
    ELSE I \ generate_subscriptions(a.e, a.s)

\* ------------------------------------------------------- callbacks' bodies
\* _finalize_connection: self.ws.sock = None.  When self.ws is the
\* WebSocketApp of another, live thread, that thread loses its socket: its
\* next read fails and the connection it held is left to the collector.
finalize_connection(c) ==
    IF c.ws = 0 \/ c.sock[c.ws].st \notin {"connecting", "open"} THEN c
    ELSE [c EXCEPT !.sock[c.ws].st = "closed",
                   !.sock[c.ws].srv = {},
                   !.sock[c.ws].orphan = TRUE]

\* the test of _on_open with the flag inverted
ResubscribesOnOpen_inverted(c) ==
    IS_SUBSCRIPTION_COMMAND_SUPPORTED /\ c.is_subscribed_with_url

ResubscribesOnOpen(c) ==
    IS_SUBSCRIPTION_COMMAND_SUPPORTED /\ ~c.is_subscribed_with_url

RECURSIVE flush(_)
flush(c) ==
    IF c.queue = <<>> THEN c
    ELSE flush(ws_send([c EXCEPT !.queue = Tail(@)], Head(c.queue)))

\* _on_open up to the copy of current_subscriptions that subscribe() takes.
\* The loop that empties the queue never ends while the client is connecting
\* (_send appends what the loop pops): k = "spin".
on_open_begin(c) ==
    IF ~c.is_started THEN close(c)
    ELSE LET c1 == [c EXCEPT !.is_reconnecting = FALSE, !.reconnect_tries = 0]
             c2 == IF c1.queue = <<>> THEN c1
                   ELSE IF is_connected(c1) THEN flush(c1)
                   ELSE [c1 EXCEPT !.k = "spin"]
         IN IF c2.k = "spin" \/ ~ResubscribesOnOpen(c2) THEN c2
            ELSE [store_subscription(c2, DOMAIN c2.symbols_by_endpoint, {})
                    EXCEPT !.k = "subscribe"]

\* the rest of that subscribe(): update current_subscriptions, _subscribe
on_open_subscribe(c, subscriptions) ==
    LET c1 == [c EXCEPT !.current_subscriptions = @ \cup subscriptions]
    IN IF subscriptions # {} THEN _subscribe(c1, subscriptions) ELSE c1

\* the condition of _on_close without its is_started disjunct
ReconnectsOnClose_counted(c) ==
    c.is_reconnecting /\ c.reconnect_tries < cfg_reconnect_count

\* the condition under which _on_close reconnects
ReconnectsOnClose(c) ==
    c.is_started \/ (c.is_reconnecting
                     /\ c.reconnect_tries < cfg_reconnect_count)

\* the delay without the test of _reconnect_tries != 0
backoff_delay_every_try(c) ==
    IF c.reconnect_delay_sec > 0
    THEN Pow2(Min(c.reconnect_tries, BackoffCap))
    ELSE 0

\* the delay _on_close sleeps before reconnect(), 0 when it does not sleep
backoff_delay(c) ==
    IF c.reconnect_tries # 0 /\ c.reconnect_delay_sec > 0
    THEN Pow2(Min(c.reconnect_tries, BackoffCap))
    ELSE 0

\* _on_close up to its sleep
on_close_begin(c) ==
    LET c1 == IF ResubscribesOnOpen(c)
              THEN [c EXCEPT !.pending_subscriptions = {}] ELSE c
    IN IF ReconnectsOnClose(c1)
       THEN [finalize_connection(c1) EXCEPT
                !.is_reconnecting = TRUE,
                !.reconnect_delay_sec =
                    IF backoff_delay(c1) # 0 THEN backoff_delay(c1) ELSE @,
                !.k = "sleep"]
       ELSE close([c1 EXCEPT !.is_reconnecting = FALSE])

\* _on_close after its sleep: count the try and reconnect()
on_close_reconnect(c) ==
    reconnect([c EXCEPT !.reconnect_tries = @ + 1])

\* BitMEXWSClient.on_item_received keeps an item when symbols_by_endpoint has
\* no symbols for its endpoint or has the item's symbol; WSClient keeps all.
on_item_received_keeps(c, sub) ==
    IF platform = "BitMEX"
    THEN LET symbols == IF sub[1] \in DOMAIN c.symbols_by_endpoint
                        THEN c.symbols_by_endpoint[sub[1]] ELSE {}
         IN sub[2] = NoSymbol \/ symbols = {} \/ sub[2] \in symbols
    ELSE sub \in c.stored

\* ------------------------------------------------------------ initial state
NoPair == [a |-> NoArgs, phase |-> "none", empty |-> TRUE]
NoOpen == [sock |-> 0, missing |-> {}]
NoPost == [cur |-> {}, pend |-> {}, done |-> {}, failed |-> {}, started |-> FALSE, ws |-> 0, url |-> {},
           old |-> "none", private |-> "None"]
NoCall == [op |-> "none", a |-> NoArgs, started |-> FALSE, before |-> {},
           ws |-> 0, nsock |-> 0, sent |-> <<>>, same |-> TRUE, frame |-> TRUE,
           known |-> {}, phase |-> "none", ret |-> "None", post |-> NoPost,
           srv |-> {}, private |-> "None"]
None == <<>>
NoBook == [ref |-> None, out |-> None, action |-> "none", n |-> 0]
NoPriv == [client |-> "none", subs |-> {}, result |-> <<>>, out |-> <<>>]
NoInfo == [stored |-> {}, from |-> None, id |-> FALSE,
           out |-> [ret |-> "none", sub |-> None]]
\* The subscription strings of candles, "c:{symbol}:{interval}"
Intervals == {"1m", "1h"}
CandleKeys == {"candle"} \X {"X", "Y"} \X Intervals
NoCode == "none"
TableNames == {"trade", "order"}
NoTable == [table |-> "", action |-> "", rows |-> <<>>, before |-> <<>>]
NoDelay == -1
NoThrottle == [in_minute |-> 0, before |-> 0, delay |-> NoDelay,
               seen |-> [k \in 0..(MaxPerMinute - 1) |-> NoDelay]]
NoAck == [sock |-> 0, sub |-> None, ok |-> TRUE, pending |-> FALSE,
          successful |-> FALSE, failed |-> FALSE]
NoConv == [converter |-> "none", name |-> "none", value |-> "none",
           platform_value |-> "none", back |-> "none"]
NoRate == [n |-> 0, code |-> NoCode, prev_code |-> NoCode, prev_delay |-> 0]
NoFilter == [ts |-> <<>>, from |-> 0, to |-> 0, out |-> <<>>, swapped |-> <<>>]
NoTodo == [kind |-> "none", todo |-> <<>>, parsed |-> <<>>]
NoMsg == [sock |-> 0, kind |-> "none", phase |-> "none", parsed |-> <<>>,
          items |-> <<>>, ondata |-> 0, batch |-> <<>>]
NoClose == [sock |-> 0, started |-> FALSE, reconnect |-> FALSE, tries |-> 0,
            first |-> FALSE, slept |-> 0]

InitClient ==
    /\ current_subscriptions = {}
    /\ pending_subscriptions = {}
    /\ successful_subscriptions = {}
    /\ failed_subscriptions = {}
    /\ symbols_by_endpoint = <<>>
    /\ stored = {}
    /\ is_private = "None"
    /\ is_started = FALSE
    /\ is_reconnecting = TRUE
    /\ reconnect_tries = 0
    /\ reconnect_delay_sec = cfg_reconnect_delay_sec
    /\ is_subscribed_with_url = FALSE
    /\ ws = 0
    /\ queue = <<>>
    /\ nsock = 0
    /\ sock = [i \in SockIds |-> NoSock]
    /\ tpc = [i \in SockIds |-> "none"]
    /\ tcopy = [i \in SockIds |-> {}]
    /\ upc = "idle"
    /\ ucalls = 0
    /\ intended = {}
    /\ user_closed = FALSE
    /\ g_open = NoOpen
    /\ g_close = NoClose
    /\ g_attempts = 0
    /\ g_pair = NoPair
    /\ g_data = "none"
    /\ g_raced = FALSE
    /\ g_call = NoCall
    /\ data_buffer = <<>>
    /\ tmsg = [i \in SockIds |-> NoTodo]
    /\ tcb = [i \in SockIds |-> <<>>]
    /\ tbl_keys = FALSE
    /\ tbl_rows = {}
    /\ g_msg = NoMsg
    /\ prev_order_book_data = None
    /\ g_book = NoBook
    /\ g_priv = NoPriv
    /\ g_info = NoInfo
    /\ endpoint_symbol_params_by_subscription = [key \in CandleKeys |-> None]
    /\ g_filter = NoFilter
    /\ ratelimit_error_in_row_count = 0
    /\ delay_before_next_request_sec = 0
    /\ g_rate = NoRate
    /\ g_conv = NoConv
    /\ g_ack = NoAck
    /\ throttle_counter = <<0, 0>>
    /\ now = 0
    /\ g_throttle = NoThrottle
    /\ data = [table \in TableNames |-> <<>>]
    /\ g_table = NoTable

\* A client of any platform with the class's defaults
Init ==
    /\ platform \in Platforms
    /\ cfg_reconnect_count = reconnect_count
    /\ cfg_reconnect_delay_sec = default_reconnect_delay_sec
    /\ sock_limit = MaxSock
    /\ call_limit = MaxCalls
    /\ has_rest_helper = TRUE
    /\ InitClient

\* ----------------------------------------------------------- thread helpers
\* connect() starts a thread for the WebSocketApp it creates
Threads(c, t) ==
    [j \in SockIds |-> IF j > nsock /\ j <= c.nsock THEN "run" ELSE t[j]]

\* ------------------------------------------------------------- user thread
\* Where the user's thread is after a step of its call: reconnect() sleeps
\* in throttle() before connect(); a backoff sleep would leave it at "backoff"
UserPc(k) ==
    CASE k = "connect" -> "throttle"
      [] k = "connect_raise" -> "raise_throttle"
      [] k = "connect_subscribe" -> "resubscribe_throttle"
      [] k = "sleep" -> "backoff"
      [] OTHER -> "idle"

\* The strings the arguments of a call name
Requested(a) ==
    IF a = NoArgs THEN current_subscriptions
    ELSE generate_subscriptions(a.e \cap supported_endpoints, a.s)

Snapshot(c, old) ==
    [cur |-> c.current_subscriptions,
     pend |-> c.pending_subscriptions,
     done |-> c.successful_subscriptions,
     failed |-> c.failed_subscriptions,
     started |-> c.is_started,
     ws |-> c.ws,
     url |-> IF c.ws = 0 THEN {} ELSE c.sock[c.ws].url,
     old |-> IF old = 0 THEN "none" ELSE c.sock[old].st,
     private |-> c.is_private]

CallPhase(c) ==
    IF c.ret = "raise" THEN "raised"
    ELSE IF UserPc(c.k) = "idle" THEN "returned" ELSE "running"

\* The call op(a) found the state St and its first step left c; known are
\* the strings the user's subscribe calls have named so far
Called(op, a, c) ==
    [op |-> op, a |-> a,
     started |-> is_started,
     before |-> current_subscriptions,
     ws |-> ws,
     nsock |-> nsock,
     sent |-> c.out,
     same |-> ([c EXCEPT !.k = "done", !.ret = "None", !.out = <<>>] = St),
     frame |-> /\ current_subscriptions \ Requested(a) \subseteq c.current_subscriptions
               /\ pending_subscriptions \ Requested(a) \subseteq c.pending_subscriptions
               /\ successful_subscriptions \ Requested(a)
                      \subseteq c.successful_subscriptions
               /\ failed_subscriptions \ Requested(a) \subseteq c.failed_subscriptions,
     known |-> g_call.known \cup (IF op = "subscribe" /\ c.ret # "raise"
                                   THEN Requested(a) ELSE {}),
     phase |-> CallPhase(c),
     ret |-> c.ret,
     post |-> IF CallPhase(c) = "running" THEN NoPost ELSE Snapshot(c, ws),
     srv |-> IF ws = 0 THEN {} ELSE sock[ws].srv,
     private |-> is_private]

\* A later step of the call left c
Continued(g, c) ==
    [g EXCEPT !.sent = @ \o c.out,
              !.phase = CallPhase(c),
              !.ret = IF c.ret = "raise" THEN "raise" ELSE @,
              !.post = IF CallPhase(c) = "running" THEN @ ELSE Snapshot(c, g.ws)]

Subscribing(a) ==
    /\ upc = "idle" /\ ucalls < call_limit
    /\ LET c == subscribe(St, a) IN
        /\ Set(c)
        /\ upc' = UserPc(c.k)
        /\ g_pair' = IF current_subscriptions = {} /\ c.current_subscriptions # {}
                     THEN [a |-> a, phase |-> "subscribed", empty |-> FALSE]
                     ELSE NoPair
    /\ ucalls' = ucalls + 1
    /\ intended' = Intend_subscribe(intended, St, a)
    /\ user_closed' = FALSE
    /\ g_raced' = (g_raced \/ \E i \in SockIds :
                                tpc[i] \in {"on_close_sleep", "on_close_throttle"})
    /\ UNCHANGED <<config, mvars, rvars, tpc, tcopy, g_open, g_close, g_attempts, g_data>>

UserSubscribe(a) == Subscribing(a) /\ UNCHANGED g_call

Unsubscribing(a) ==
    /\ upc = "idle" /\ ucalls < call_limit
    /\ LET c == unsubscribe(St, a) IN
        /\ Set(c)
        /\ upc' = UserPc(c.k)
        /\ g_pair' = IF g_pair.phase = "subscribed" /\ g_pair.a = a
                     THEN IF c.k = "connect"
                          THEN [g_pair EXCEPT !.phase = "unsubscribing"]
                          ELSE [g_pair EXCEPT !.phase = "returned",
                                   !.empty = (c.current_subscriptions = {})]
                     ELSE NoPair
    /\ ucalls' = ucalls + 1
    /\ intended' = Intend_unsubscribe(intended, a)
    /\ user_closed' = FALSE
    /\ UNCHANGED <<config, mvars, rvars, tpc, tcopy, g_open, g_close, g_attempts, g_data,
                   g_raced>>

UserUnsubscribe(a) == Unsubscribing(a) /\ UNCHANGED g_call

Closing ==
    /\ upc = "idle" /\ ucalls < call_limit
    /\ Set(close(St))
    /\ ucalls' = ucalls + 1
    /\ user_closed' = TRUE
    /\ g_pair' = NoPair
    /\ UNCHANGED <<config, mvars, rvars, tpc, tcopy, upc, intended, g_open, g_close,
                   g_attempts, g_data, g_raced>>

UserClose == Closing /\ UNCHANGED g_call

\* The connect() that ends the reconnect() of the user's call
Connecting ==
    /\ upc = "throttle" /\ CanConnect(St)
    /\ LET c == connect(St) IN
        /\ Set(c)
        /\ tpc' = Threads(c, tpc)
    /\ upc' = "idle"
    /\ g_pair' = IF g_pair.phase = "unsubscribing"
                 THEN [g_pair EXCEPT !.phase = "returned",
                          !.empty = (current_subscriptions = {})]
                 ELSE g_pair
    /\ UNCHANGED <<config, mvars, rvars, tcopy, ucalls, intended, user_closed, g_open,
                   g_close, g_attempts, g_data, g_raced>>

UserConnect == Connecting /\ UNCHANGED g_call

\* ------------------------------------------------------ background threads
\* What a completed _on_open left unsent on its socket
Unsent(c, i) ==
    [sock |-> i,
     missing |-> IF c.sock[i].st = "open"
                 THEN c.current_subscriptions \ c.sock[i].subcmd ELSE {}]

\* The connection of WebSocketApp i is established: run_forever calls _on_open
Opened(i) ==
    /\ tpc[i] = "run" /\ sock[i].st = "connecting"
    /\ LET c == on_open_begin([St EXCEPT !.sock[i].st = "open"]) IN
        /\ Set(c)
        /\ tpc' = [tpc EXCEPT ![i] = CASE c.k = "subscribe" -> "on_open_subscribe"
                                       [] c.k = "spin" -> "spin"
                                       [] OTHER -> "run"]
        /\ tcopy' = [tcopy EXCEPT ![i] = IF c.k = "subscribe"
                                         THEN c.current_subscriptions ELSE @]
    /\ g_attempts' = 0
    /\ UNCHANGED <<config, mvars, rvars, upc, ucalls, intended, user_closed, g_open,
                   g_close, g_pair, g_data, g_raced, g_call>>

OnOpenSubscribe(i) ==
    /\ tpc[i] = "on_open_subscribe"
    /\ LET c == on_open_subscribe(St, tcopy[i]) IN
        /\ Set(c)
        /\ tpc' = [tpc EXCEPT ![i] = IF c.k = "connect"
                                     THEN "on_open_throttle" ELSE "run"]
        /\ g_open' = IF c.k = "connect" THEN g_open ELSE Unsent(c, i)
    /\ tcopy' = [tcopy EXCEPT ![i] = {}]
    /\ UNCHANGED <<config, mvars, rvars, upc, ucalls, intended, user_closed, g_close,
                   g_attempts, g_pair, g_data, g_raced, g_call>>

OnOpenConnect(i) ==
    /\ tpc[i] = "on_open_throttle" /\ CanConnect(St)
    /\ LET c == connect(St) IN
        /\ Set(c)
        /\ tpc' = Threads(c, [tpc EXCEPT ![i] = "run"])
    /\ UNCHANGED <<config, mvars, rvars, tcopy, upc, ucalls, ghosts>>

\* The platform or the network ends the connection of WebSocketApp i
Dropped(i) ==
    /\ sock[i].st \in {"connecting", "open"}
    /\ sock' = [sock EXCEPT ![i].st = "closed", ![i].srv = {}]
    /\ UNCHANGED <<config, mvars, rvars, current_subscriptions, pending_subscriptions,
                   successful_subscriptions, failed_subscriptions,
                   symbols_by_endpoint, stored, is_private, is_started,
                   is_reconnecting, reconnect_tries, reconnect_delay_sec,
                   is_subscribed_with_url, ws, queue, nsock, tpc, tcopy, upc,
                   ucalls, ghosts>>

\* run_forever of WebSocketApp i ends and calls _on_close
Closed(i) ==
    /\ tpc[i] = "run" /\ sock[i].st = "closed"
    /\ LET c0 == [St EXCEPT !.sock[i].orphan = FALSE]
           c == on_close_begin(c0)
       IN
        /\ Set(c)
        /\ tpc' = [tpc EXCEPT ![i] = IF c.k = "sleep"
                                     THEN "on_close_sleep" ELSE "done"]
        /\ g_close' = [sock |-> i,
                       started |-> is_started,
                       reconnect |-> (c.k = "sleep"),
                       tries |-> reconnect_tries,
                       first |-> (g_attempts = 0),
                       slept |-> IF c.k = "sleep" THEN backoff_delay(c0) ELSE 0]
    /\ UNCHANGED <<config, mvars, rvars, tcopy, upc, ucalls, intended, user_closed, g_open,
                   g_attempts, g_pair, g_data, g_raced, g_call>>

OnCloseReconnect(i) ==
    /\ tpc[i] = "on_close_sleep"
    /\ Set(on_close_reconnect(St))
    /\ tpc' = [tpc EXCEPT ![i] = "on_close_throttle"]
    /\ g_attempts' = g_attempts + 1
    /\ UNCHANGED <<config, mvars, rvars, tcopy, upc, ucalls, intended, user_closed, g_open,
                   g_close, g_pair, g_data, g_raced, g_call>>

OnCloseConnect(i) ==
    /\ tpc[i] = "on_close_throttle" /\ CanConnect(St)
    /\ LET c == connect(St) IN
        /\ Set(c)
        /\ tpc' = Threads(c, [tpc EXCEPT ![i] = "done"])
    /\ UNCHANGED <<config, mvars, rvars, tcopy, upc, ucalls, ghosts>>

\* WebSocketApp i receives a message of a channel the platform streams on it:
\* _on_message parses it and hands the items that pass to on_data
Message(i, sub) ==
    /\ tpc[i] = "run" /\ sock[i].st = "open" /\ sub \in sock[i].srv
    /\ on_item_received_keeps(St, sub)
    /\ g_data' = IF sub \in current_subscriptions
                 THEN "subscribed" ELSE "unsubscribed"
    /\ UNCHANGED <<config, mvars, rvars, cvars, tpc, tcopy, upc, ucalls, intended,
                   user_closed, g_open, g_close, g_attempts, g_pair, g_raced,
                   g_call>>

Next ==
    \/ \E a \in UserArgs : UserSubscribe(a)
    \/ \E a \in UserArgs : UserUnsubscribe(a)
    \/ UserClose
    \/ UserConnect
    \/ \E i \in SockIds : Opened(i)
    \/ \E i \in SockIds : OnOpenSubscribe(i)
    \/ \E i \in SockIds : OnOpenConnect(i)
    \/ \E i \in SockIds : Dropped(i)
    \/ \E i \in SockIds : Closed(i)
    \/ \E i \in SockIds : OnCloseReconnect(i)
    \/ \E i \in SockIds : OnCloseConnect(i)
    \/ \E i \in SockIds : \E sub \in AllSubs : Message(i, sub)

Spec == Init /\ [][Next]_vars

\* ---------------------------------------------- reconnecting, configured
\* The application sets reconnect_count and reconnect_delay_sec (the tests
\* set both to 0) and subscribes once; the connection is dropped again and
\* again.  The subscribe() of _on_open never reconnects here: the client is
\* started whenever a connection opens.
ReconnectCounts == {0, 1, reconnect_count}
ReconnectDelays == {0, default_reconnect_delay_sec}

InitBackoff ==
    /\ platform \in Platforms
    /\ cfg_reconnect_count \in ReconnectCounts
    /\ cfg_reconnect_delay_sec \in ReconnectDelays
    /\ sock_limit = MaxDrops
    /\ call_limit = MaxCalls
    /\ has_rest_helper = TRUE
    /\ InitClient

FirstSubscribe == ucalls = 0 /\ \E a \in UserArgs : UserSubscribe(a)

NextBackoff ==
    \/ FirstSubscribe
    \/ UserConnect
    \/ \E i \in SockIds : Opened(i)
    \/ \E i \in SockIds : OnOpenSubscribe(i)
    \/ \E i \in SockIds : Dropped(i)
    \/ \E i \in SockIds : Closed(i)
    \/ \E i \in SockIds : OnCloseReconnect(i)
    \/ \E i \in SockIds : OnCloseConnect(i)

SpecBackoff == InitBackoff /\ [][NextBackoff]_vars

\* ------------------------------------- subscribing while connections drop
\* The user only subscribes; the platform drops connections.  The
\* subscribe() of _on_open never reconnects here: without a close() from the
\* user the client is started whenever a connection opens.
NextRace ==
    \/ \E a \in UserArgs : UserSubscribe(a)
    \/ UserConnect
    \/ \E i \in SockIds : Opened(i)
    \/ \E i \in SockIds : OnOpenSubscribe(i)
    \/ \E i \in SockIds : Dropped(i)
    \/ \E i \in SockIds : Closed(i)
    \/ \E i \in SockIds : OnCloseReconnect(i)
    \/ \E i \in SockIds : OnCloseConnect(i)

SpecRace == Init /\ [][NextRace]_vars

\* ------------------------------ subscribing and unsubscribing, four calls
\* The user subscribes and unsubscribes; connections open, and those the
\* client's own reconnects close are handled; the platform drops none.
InitCalls ==
    /\ platform \in Platforms
    /\ cfg_reconnect_count = reconnect_count
    /\ cfg_reconnect_delay_sec = default_reconnect_delay_sec
    /\ sock_limit = MaxSock
    /\ call_limit = MaxPairCalls
    /\ has_rest_helper = TRUE
    /\ InitClient

NextCalls ==
    \/ \E a \in UserArgs : UserSubscribe(a)
    \/ \E a \in UserArgs : UserUnsubscribe(a)
    \/ UserConnect
    \/ \E i \in SockIds : Opened(i)
    \/ \E i \in SockIds : OnOpenSubscribe(i)
    \/ \E i \in SockIds : Closed(i)
    \/ \E i \in SockIds : OnCloseReconnect(i)
    \/ \E i \in SockIds : OnCloseConnect(i)

SpecCalls == InitCalls /\ [][NextCalls]_vars

\* --------------------------------------------------------- inbound messages
\* What _parse makes of a message is a list of results: items (DataObject)
\* of a channel, and results that are no items (None, unparsed data).
Junk == <<"junk", NoSymbol>>

\* What BitMEXWSConverterV1.parse makes of a frame with an "error" key: the
\* Error of parse_error, a ValueObject that is no DataObject
ErrorItem == <<"error", NoSymbol>>

\* The table of BitMEX whose rows the platform updates and deletes, and the
\* item that a message of that table parses to
Rows == {"r1"}
TableActions == {"partial", "insert", "update", "delete"}
TableItem == <<"quote", "X">>

ItemSeqs(S) == UNION {[1..n -> S] : n \in 0..MaxItems}

\* The text messages WebSocketApp i can receive: text that is not JSON, the
\* JSON value [], JSON that parses to a list of results, and on BitMEX the
\* operations of the table
Messages(i) ==
    {[kind |-> k, items |-> <<>>, action |-> "", rows |-> {}] :
         k \in {"invalid", "empty"}}
    \cup {[kind |-> "data", items |-> s, action |-> "", rows |-> {}] :
              s \in ItemSeqs(sock[i].srv \cup {Junk})}
    \cup (IF platform = "BitMEX"
          THEN {[kind |-> "error", items |-> <<ErrorItem>>, action |-> "", rows |-> {}]}
          ELSE {})
    \cup (IF platform = "BitMEX" /\ TableItem \in sock[i].srv
          THEN {[kind |-> "table", items |-> <<TableItem>>, action |-> a, rows |-> {r}] :
                    a \in TableActions, r \in Rows}
          ELSE {})

\* BitMEXWSConverterV1.handle_data_table on the table's keys and rows:
\* what it returns ("message", or "None" from its bare return) or "raise"
handle_data_table(keys, rows, m) ==
    CASE m.action = "partial" ->
            [out |-> "message", keys |-> TRUE, rows |-> rows \cup m.rows]
      [] m.action = "insert" ->
            [out |-> "message", keys |-> keys, rows |-> rows \cup m.rows]
      [] m.action = "update" ->
            IF ~keys THEN [out |-> "raise", keys |-> keys, rows |-> rows]
            ELSE IF ~(m.rows \subseteq rows)
            THEN [out |-> "None", keys |-> keys, rows |-> rows]
            ELSE [out |-> "message", keys |-> keys, rows |-> rows]
      [] OTHER ->
            IF ~keys \/ ~(m.rows \subseteq rows)
            THEN [out |-> "raise", keys |-> keys, rows |-> rows]
            ELSE [out |-> "message", keys |-> keys, rows |-> rows \ m.rows]

\* BitMEXWSConverterV1.preprocess_data calls data.get on what
\* handle_data_table returned
preprocess_data_raises(keys, rows, m) ==
    handle_data_table(keys, rows, m).out \in {"raise", "None"}

\* get_subscription_info of BitMEX and of Binance calls data.get on the
\* parsed JSON, which is a list for []
get_subscription_info_raises(m) ==
    m.kind = "empty" /\ platform \in {"BitMEX", "Binance"}

\* _on_message raises before it has reset _data_buffer
on_message_raises(m) ==
    \/ get_subscription_info_raises(m)
    \/ (m.kind = "table" /\ preprocess_data_raises(tbl_keys, tbl_rows, m))

IsItem(x) == x \notin {Junk, ErrorItem}

Ended(i, m, phase) ==
    [sock |-> i, kind |-> m.kind, phase |-> phase, parsed |-> <<>>,
     items |-> <<>>, ondata |-> 0, batch |-> <<>>]

\* WebSocketApp i receives a text message: _on_message up to its loop over
\* the results
OnMessage(i, m) ==
    /\ tpc[i] = "run" /\ sock[i].st = "open" /\ m \in Messages(i)
    /\ IF m.kind = "invalid"
       THEN /\ g_msg' = Ended(i, m, "done")
            /\ UNCHANGED <<tpc, data_buffer, tmsg, tcb, tbl_keys, tbl_rows>>
       ELSE IF on_message_raises(m)
       THEN /\ g_msg' = Ended(i, m, "raised")
            /\ UNCHANGED <<tpc, data_buffer, tmsg, tcb, tbl_keys, tbl_rows>>
       ELSE /\ data_buffer' = <<>>
            /\ tmsg' = [tmsg EXCEPT ![i] =
                            [kind |-> m.kind, todo |-> m.items,
                             parsed |-> SelectSeq(m.items, IsItem)]]
            /\ tcb' = [tcb EXCEPT ![i] = <<>>]
            /\ tpc' = [tpc EXCEPT ![i] = "on_message"]
            /\ tbl_keys' = IF m.kind = "table"
                           THEN handle_data_table(tbl_keys, tbl_rows, m).keys
                           ELSE tbl_keys
            /\ tbl_rows' = IF m.kind = "table"
                           THEN handle_data_table(tbl_keys, tbl_rows, m).rows
                           ELSE tbl_rows
            /\ UNCHANGED g_msg
    /\ UNCHANGED <<rvars, config, cvars, tcopy, upc, ucalls, ghosts>>

\* on_item_received for the next result: an item goes to on_data_item and
\* into _data_buffer
OnItemReceived(i) ==
    /\ tpc[i] = "on_message" /\ tmsg[i].todo # <<>>
    /\ LET item == Head(tmsg[i].todo)
           keeps == IsItem(item) /\ on_item_received_keeps(St, item)
       IN /\ tcb' = [tcb EXCEPT ![i] = IF keeps THEN Append(@, item) ELSE @]
          /\ data_buffer' = IF keeps THEN Append(data_buffer, item)
                            ELSE data_buffer
    /\ tmsg' = [tmsg EXCEPT ![i].todo = Tail(@)]
    /\ UNCHANGED <<rvars, config, cvars, tpc, tcopy, upc, ucalls, ghosts, tbl_keys,
                   tbl_rows, g_msg>>

\* the end of _on_message: on_data(self._data_buffer) when it is not empty
OnData(i) ==
    /\ tpc[i] = "on_message" /\ tmsg[i].todo = <<>>
    /\ g_msg' = [sock |-> i, kind |-> tmsg[i].kind, phase |-> "done",
                 parsed |-> tmsg[i].parsed,
                 items |-> tcb[i],
                 ondata |-> IF data_buffer # <<>> THEN 1 ELSE 0,
                 batch |-> data_buffer]
    /\ tpc' = [tpc EXCEPT ![i] = "run"]
    /\ tmsg' = [tmsg EXCEPT ![i] = NoTodo]
    /\ tcb' = [tcb EXCEPT ![i] = <<>>]
    /\ UNCHANGED <<rvars, config, cvars, tcopy, upc, ucalls, ghosts, data_buffer,
                   tbl_keys, tbl_rows>>

\* The user subscribes, which reconnects on a platform without a subscribe
\* command; connections open, receive messages, and those the client closes
\* are handled.  _on_message is followed result by result: the callbacks it
\* calls are the application's and take their time.
InitMessage ==
    /\ platform \in Platforms
    /\ cfg_reconnect_count = reconnect_count
    /\ cfg_reconnect_delay_sec = default_reconnect_delay_sec
    /\ sock_limit = MaxSock
    /\ call_limit = MaxMsgCalls
    /\ has_rest_helper = TRUE
    /\ InitClient

NextMessage ==
    \/ \E a \in UserArgs : UserSubscribe(a)
    \/ UserConnect
    \/ \E i \in SockIds : Opened(i)
    \/ \E i \in SockIds : OnOpenSubscribe(i)
    \/ \E i \in SockIds : \E m \in Messages(i) : OnMessage(i, m)
    \/ \E i \in SockIds : OnItemReceived(i)
    \/ \E i \in SockIds : OnData(i)
    \/ \E i \in SockIds : Closed(i)
    \/ \E i \in SockIds : OnCloseReconnect(i)
    \/ \E i \in SockIds : OnCloseConnect(i)

SpecMessage == InitMessage /\ [][NextMessage]_vars

\* ------------------------------------------------- order book of BitMEX
\* The rows of the table orderBookL2 for one symbol: a row has an id, which
\* fixes its side and price, and a size.
RowIds == 1..MaxRows
Sizes == 1..MaxSize
NoRow == -1
Side(id) == IF 2 * id <= MaxRows THEN "Sell" ELSE "Buy"

\* of a book, which gives the size of each row and NoRow for a row that is
\* not in it: the rows it has, and what parse makes of them
Present(b) == {id \in RowIds : b[id] # NoRow}
asks(b) == {<<id, b[id]>> : id \in {r \in Present(b) : Side(r) = "Sell"}}
bids(b) == {<<id, b[id]>> : id \in {r \in Present(b) : Side(r) = "Buy"}}

\* The merge of BitMEXWSConverterV1.preprocess_data for ORDER_BOOK: a partial
\* replaces the previous data; a delete sets the size of its rows to 0; the
\* rows of the message are written over the previous rows of the same id or
\* appended.  The result is the previous data, None before a partial.
merge_order_book(prev, m, size) ==
    CASE m.action = "partial" ->
            [id \in RowIds |-> IF id \in m.rows THEN size ELSE NoRow]
      [] prev = None -> None
      [] m.action = "delete" ->
            [id \in RowIds |-> IF id \in m.rows THEN 0 ELSE prev[id]]
      [] OTHER ->
            [id \in RowIds |-> IF id \in m.rows THEN size ELSE prev[id]]

\* what the platform's book becomes by the operation
apply_operation(ref, m, size) ==
    CASE m.action = "partial" ->
            [id \in RowIds |-> IF id \in m.rows THEN size ELSE NoRow]
      [] m.action = "delete" ->
            [id \in RowIds |-> IF id \in m.rows THEN NoRow ELSE ref[id]]
      [] OTHER ->
            [id \in RowIds |-> IF id \in m.rows THEN size ELSE ref[id]]

\* _parse of a message of the table: handle_data_table on the table, the
\* merge, and parse, which splits the merged rows into asks and bids
BookMessage(m, size) ==
    /\ g_book.n < MaxBookOps
    /\ ~preprocess_data_raises(tbl_keys, tbl_rows, m)
    /\ tbl_keys' = handle_data_table(tbl_keys, tbl_rows, m).keys
    /\ tbl_rows' = handle_data_table(tbl_keys, tbl_rows, m).rows
    /\ prev_order_book_data' = merge_order_book(prev_order_book_data, m, size)
    /\ g_book' = [ref |-> apply_operation(g_book.ref, m, size),
                  out |-> prev_order_book_data',
                  action |-> m.action, n |-> g_book.n + 1]
    /\ UNCHANGED <<wsvars, data_buffer, tmsg, tcb, g_msg, privvars, infovars,
                   storevars, filtervars, ratevars, convvars, latevars>>

TableMessage(a, rows) ==
    [kind |-> "table", items |-> <<>>, action |-> a, rows |-> rows]

\* the snapshot the platform sends first
BookPartial(rows) ==
    /\ g_book.ref = None
    /\ BookMessage(TableMessage("partial", rows), 1)

\* the platform changes the size of a row of its book
BookUpdate(id, size) ==
    /\ g_book.ref # None /\ id \in Present(g_book.ref)
    /\ BookMessage(TableMessage("update", {id}), size)

\* the platform removes a row of its book
BookDelete(id) ==
    /\ g_book.ref # None /\ id \in Present(g_book.ref)
    /\ BookMessage(TableMessage("delete", {id}), 0)

\* the platform adds a row to its book
BookInsert(id, size) ==
    /\ g_book.ref # None /\ id \notin Present(g_book.ref)
    /\ BookMessage(TableMessage("insert", {id}), size)

\* A BitMEX converter receives the snapshot of orderBookL2 and then the
\* operations the platform makes on its book.
InitBook ==
    /\ platform = "BitMEX"
    /\ cfg_reconnect_count = reconnect_count
    /\ cfg_reconnect_delay_sec = default_reconnect_delay_sec
    /\ sock_limit = MaxSock
    /\ call_limit = MaxCalls
    /\ has_rest_helper = TRUE
    /\ InitClient

NextBook ==
    \/ \E rows \in (SUBSET RowIds) \ {{}} : BookPartial(rows)
    \/ \E id \in RowIds, size \in Sizes : BookUpdate(id, size)
    \/ \E id \in RowIds : BookDelete(id)
    \/ \E id \in RowIds, size \in Sizes : BookInsert(id, size)

SpecBook == InitBook /\ [][NextBook]_vars

\* ------------------------------------------- private stream of Binance
\* The endpoints of the one private stream, which are their own (virtual)
\* subscriptions, and the clients that filter its items
PrivateStreamEndpoints == {"balance", "position", "order", "trade_my"}
PrivateClients == {"BinanceWSClient", "BinanceFutureWSClient"}

\* What the converter's parse makes of one wire message of the stream, each
\* item named by its endpoint: an execution report fans out into an Order
\* and a MyTrade (no MyTrade when its item_id is -1), an account update into
\* one Balance per asset
FanOuts ==
    {<<"order", "trade_my">>, <<"order">>}
        \cup UNION {[1..n -> {"balance"}] : n \in 1..MaxFan}

\* list.remove(x): without the first element equal to x
RECURSIVE Remove(_, _)
Remove(s, x) ==
    IF s = <<>> THEN <<>>
    ELSE IF Head(s) = x THEN Tail(s)
    ELSE <<Head(s)>> \o Remove(Tail(s), x)

\* BinanceWSClient._parse: "for res in result: ... result.remove(res)", the
\* loop's index going on over the list as it shrinks
RECURSIVE remove_in_loop(_, _, _)
remove_in_loop(result, i, subs) ==
    IF i > Len(result) THEN result
    ELSE IF result[i] \notin subs
    THEN remove_in_loop(Remove(result, result[i]), i + 1, subs)
    ELSE remove_in_loop(result, i + 1, subs)

\* BinanceFutureWSClient._parse: "for res in list(result): ...
\* result.remove(res)", the loop going over a copy
RECURSIVE remove_in_copy(_, _, _)
remove_in_copy(result, copy, subs) ==
    IF copy = <<>> THEN result
    ELSE IF Head(copy) \notin subs
    THEN remove_in_copy(Remove(result, Head(copy)), Tail(copy), subs)
    ELSE remove_in_copy(result, Tail(copy), subs)

\* make_positions_from_balance: a Position for the k balances that have one
make_positions_from_balance(k) == [j \in 1..k |-> "position"]

\* _parse of the client for a result of private items; <<>> is None
private_parse(client, result, subs, k) ==
    IF client = "BinanceWSClient"
    THEN IF result[1] = "balance" /\ "position" \in subs
         THEN make_positions_from_balance(k)
         ELSE remove_in_loop(result, 1, subs)
    ELSE remove_in_copy(result, result, subs)

\* a wire message arrives on the private stream of a client subscribed to
\* subs
PrivateMessage(client, subs, result, k) ==
    /\ k <= Len(result)
    /\ g_priv' = [client |-> client, subs |-> subs, result |-> result,
                  out |-> private_parse(client, result, subs, k)]
    /\ UNCHANGED <<wsvars, mvars, bookvars, infovars, storevars, filtervars, ratevars, convvars, latevars>>

InitPrivate ==
    /\ platform = "Binance"
    /\ cfg_reconnect_count = reconnect_count
    /\ cfg_reconnect_delay_sec = default_reconnect_delay_sec
    /\ sock_limit = MaxSock
    /\ call_limit = MaxCalls
    /\ has_rest_helper = TRUE
    /\ InitClient

NextPrivate ==
    \E client \in PrivateClients, subs \in (SUBSET PrivateStreamEndpoints) \ {{}},
       result \in FanOuts, k \in 0..MaxFan :
        PrivateMessage(client, subs, result, k)

SpecPrivate == InitPrivate /\ [][NextPrivate]_vars

\* ------------------------------------- the subscription of a message
\* Public subscriptions of several symbols: the (endpoint, symbol) that
\* endpoint_symbol_params_by_subscription holds for the subscription string
InfoEndpoints == {"trade", "candle", "ticker"}
InfoSymbols == {"X", "Y"}
InfoSubs == InfoEndpoints \X InfoSymbols

Returned(sub) == [ret |-> "return", sub |-> sub]
Raised == [ret |-> "raise", sub |-> None]

\* WSConverter.get_subscription_info: the subscription is looked up when the
\* message names it (and the converter has a subscription_param, which the
\* base class has not); otherwise no symbol and no params are returned
WSConverter_get_subscription_info(subs, from, id) == Returned(None)

\* BinanceWSConverterV1.get_subscription_info: with one stored subscription,
\* that one; with the stream name, the lookup of it; with no stream name,
\* the subscription generated from the event type and the symbol of the
\* payload for trades (for candles the endpoint's format lacks the
\* interval) and the lookup of None otherwise, whose result is unpacked
Binance_get_subscription_info(subs, from, id) ==
    IF subs = {} THEN Returned(None)
    ELSE IF Cardinality(subs) = 1
    THEN Returned(CHOOSE sub \in subs : TRUE)
    ELSE IF id \/ from[1] = "trade"
    THEN IF from \in subs THEN Returned(from) ELSE Raised
    ELSE Raised

get_subscription_info(subs, from, id) ==
    IF platform = "Binance"
    THEN Binance_get_subscription_info(subs, from, id)
    ELSE WSConverter_get_subscription_info(subs, from, id)

\* a message of the subscription from, with or without its identifier,
\* arrives at a converter that has stored the subscriptions
InfoMessage(subs, from, id) ==
    /\ from \in subs
    /\ g_info' = [stored |-> subs, from |-> from, id |-> id,
                  out |-> get_subscription_info(subs, from, id)]
    /\ UNCHANGED <<wsvars, mvars, bookvars, privvars, storevars, filtervars, ratevars, convvars, latevars>>

InitInfo ==
    /\ platform \in {"Generic", "Binance"}
    /\ cfg_reconnect_count = reconnect_count
    /\ cfg_reconnect_delay_sec = default_reconnect_delay_sec
    /\ sock_limit = MaxSock
    /\ call_limit = MaxCalls
    /\ has_rest_helper = TRUE
    /\ InitClient

NextInfo ==
    \E subs \in SUBSET InfoSubs, from \in InfoSubs, id \in BOOLEAN :
        InfoMessage(subs, from, id)

SpecInfo == InitInfo /\ [][NextInfo]_vars

\* --------------------------------------- the params of a subscription
\* The interval argument of subscribe: one interval, or a list of them
IntervalLists == {<<"1m">>, <<"1h">>, <<"1m", "1h">>, <<"1h", "1m">>}
IntervalArgs == Intervals \cup IntervalLists

\* "v if isinstance(v, list) else [v]"
as_list(v) == IF v \in Intervals THEN <<v>> ELSE v

Range(s) == {s[j] : j \in DOMAIN s}

\* _store_subscription(endpoints, symbols, interval=v): every combination of
\* endpoint, symbol and single interval gives a subscription string, under
\* which WSConverter stores the params of the call made into lists, and
\* BinanceWSConverterV1 the combination
store_params(map, symbols, v) ==
    [key \in CandleKeys |->
        IF key[2] \in symbols /\ key[3] \in Range(as_list(v))
        THEN IF platform = "Binance"
             THEN <<key[1], key[2], [interval |-> key[3]]>>
             ELSE <<key[1], key[2], [interval |-> as_list(v)]>>
        ELSE map[key]]

\* subscribe(["candle"], symbols, interval=v), as far as the converter's
\* lookup is concerned
StoreSubscription(symbols, v) ==
    /\ endpoint_symbol_params_by_subscription' =
           store_params(endpoint_symbol_params_by_subscription, symbols, v)
    /\ UNCHANGED <<wsvars, mvars, bookvars, privvars, infovars, filtervars, ratevars, convvars, latevars>>

InitStore ==
    /\ platform \in Platforms
    /\ cfg_reconnect_count = reconnect_count
    /\ cfg_reconnect_delay_sec = default_reconnect_delay_sec
    /\ sock_limit = MaxSock
    /\ call_limit = MaxCalls
    /\ has_rest_helper = TRUE
    /\ InitClient

NextStore ==
    \E symbols \in (SUBSET {"X", "Y"}) \ {{}}, v \in IntervalArgs :
        StoreSubscription(symbols, v)

SpecStore == InitStore /\ [][NextStore]_vars

\* ------------------------------------------------ range filtering
\* The parsed result of a fetch is a list of items with distinct item ids,
\* sorted by the platform: ts gives the timestamp of the item at each
\* position, and an item is named by its position.  0 is None for from_item
\* and to_item, -1 for from_time and to_time.
Slack == 1
NoTime == -1
Timestamps == 1..MaxTs

IsAscending(ts) == \A j \in 1..(Len(ts) - 1) : ts[j] <= ts[j + 1]
IsDescending(ts) == \A j \in 1..(Len(ts) - 1) : ts[j] >= ts[j + 1]
SortedLists ==
    {ts \in UNION {[1..n -> Timestamps] : n \in 1..MaxList} :
        IsAscending(ts) \/ IsDescending(ts)}

\* _process_from_item_param: from_item and to_item change places when
\* from_item's timestamp is greater than to_item's
process_from_item_param(ts, from, to) ==
    IF from # 0 /\ to # 0 /\ ts[from] > ts[to]
    THEN [from |-> to, to |-> from]
    ELSE [from |-> from, to |-> to]

\* the loop of _filter_result from position k on
RECURSIVE filter_loop(_, _, _, _, _)
filter_loop(ts, k, to, from_time, to_time) ==
    IF k > Len(ts) THEN <<>>
    ELSE IF from_time = NoTime \/ ts[k] >= from_time
    THEN <<k>> \o (IF k = to \/ (to_time # NoTime /\ ts[k] > to_time)
                   THEN <<>>
                   ELSE filter_loop(ts, k + 1, to, from_time, to_time))
    ELSE filter_loop(ts, k + 1, to, from_time, to_time)

\* _filter_result: the loop goes over result[start_index:] when the index of
\* from_item is greater than 0 and over the result otherwise
filter_result(ts, from, to, from_time, to_time) ==
    filter_loop(ts, IF from > 1 THEN from ELSE 1, to, from_time, to_time)

\* _filter_result_by_params: the time bounds are those of the items, the
\* upper one with the slack
filter_result_by_params(ts, from, to) ==
    IF from = 0 /\ to = 0 THEN [k \in 1..Len(ts) |-> k]
    ELSE filter_result(ts, from, to,
                       IF from # 0 THEN ts[from] ELSE NoTime,
                       IF to # 0 THEN ts[to] + Slack ELSE NoTime)

\* _send: preprocess_params, then post_process_result on the parsed result
send_filtered(ts, from, to) ==
    LET params == process_from_item_param(ts, from, to)
    IN filter_result_by_params(ts, params.from, params.to)

\* a fetch whose parsed result is the list, with from_item and to_item
\* among its items or None, and the same fetch with the two exchanged
Fetch(ts, from, to) ==
    /\ from <= Len(ts) /\ to <= Len(ts)
    /\ g_filter' = [ts |-> ts, from |-> from, to |-> to,
                    out |-> send_filtered(ts, from, to),
                    swapped |-> send_filtered(ts, to, from)]
    /\ UNCHANGED <<wsvars, mvars, bookvars, privvars, infovars, storevars, ratevars, convvars, latevars>>

InitFilter ==
    /\ platform \in Platforms
    /\ cfg_reconnect_count = reconnect_count
    /\ cfg_reconnect_delay_sec = default_reconnect_delay_sec
    /\ sock_limit = MaxSock
    /\ call_limit = MaxCalls
    /\ has_rest_helper = TRUE
    /\ InitClient

NextFilter ==
    \E ts \in SortedLists, from \in 0..MaxList, to \in 0..MaxList :
        Fetch(ts, from, to)

SpecFilter == InitFilter /\ [][NextFilter]_vars

\* ------------------------------------------------------------ the rate limit
\* A REST client sends requests and the platform answers: with a status, the
\* code or name of an error in the body, and on BitMEX the headers Retry-After
\* and x-ratelimit-*.  _send parses the answer and hands the result to
\* _on_response, which recommends the delay before the next request.
NoHeader == -1
Malformed == -2
Statuses == {"200", "429", "418", "400"}
BinanceCodes == {"-1003", "-1100"}
BitMEXNames == {"RateLimitError", "Unknown symbol"}
RateLimitCodes == {"RATE_LIMIT", "IP_BAN"}

\* reset_in stands for the x-ratelimit headers: the seconds from now to
\* x-ratelimit-reset when less than a tenth of the limit remains, NoHeader
\* when more remains or the headers are absent, Malformed when int() or
\* float() fails on one of them
Responses(p) ==
    IF p = "BitMEX"
    THEN [status : Statuses, code : {NoCode} \cup BitMEXNames,
          retry_after : {NoHeader} \cup (1..MaxDelay),
          reset_in : {NoHeader, Malformed} \cup (0..(MaxDelay - 1))]
    ELSE [status : Statuses, code : {NoCode} \cup BinanceCodes,
          retry_after : {NoHeader}, reset_in : {NoHeader}]

error_code_by_platform_error_code(p, code) ==
    IF p = "Binance" /\ code = "-1100" THEN "WRONG_PARAM"
    ELSE IF p = "BitMEX" /\ code = "RateLimitError" THEN "RATE_LIMIT"
    ELSE IF p = "BitMEX" /\ code = "Unknown symbol" THEN "WRONG_SYMBOL"
    ELSE code

\* the code of the Error: the body's code, or the status when the body has
\* none, looked up in error_code_by_platform_error_code alone
parse_error(p, r) ==
    error_code_by_platform_error_code(
        p, IF r.code # NoCode THEN r.code ELSE r.status)

\* the result of _send: "ok" for parsed items, the code of the Error otherwise
send_result(p, r) == IF r.status = "200" THEN "ok" ELSE parse_error(p, r)

Binance_on_response(count, result) ==
    IF result = "RATE_LIMIT"
    THEN [count |-> count + 1, delay |-> 60 * 2 * (count + 1)]
    ELSE IF result = "IP_BAN"
    THEN [count |-> count + 1, delay |-> 60 * 5 * (count + 1)]
    ELSE [count |-> 0, delay |-> 0]

BitMEX_on_response(delay, r) ==
    IF r.status # "200" /\ r.retry_after # NoHeader THEN r.retry_after
    ELSE IF r.reset_in = Malformed THEN delay
    ELSE IF r.reset_in # NoHeader THEN r.reset_in + 1
    ELSE 0

\* _send from the response on
OnResponse(r) ==
    /\ g_rate.n < MaxResponses
    /\ LET result == send_result(platform, r)
       IN /\ IF platform = "Binance"
             THEN /\ ratelimit_error_in_row_count' =
                         Binance_on_response(ratelimit_error_in_row_count, result).count
                  /\ delay_before_next_request_sec' =
                         Binance_on_response(ratelimit_error_in_row_count, result).delay
             ELSE /\ delay_before_next_request_sec' =
                         BitMEX_on_response(delay_before_next_request_sec, r)
                  /\ UNCHANGED ratelimit_error_in_row_count
          /\ g_rate' = [n |-> g_rate.n + 1, code |-> result,
                        prev_code |-> g_rate.code,
                        prev_delay |-> delay_before_next_request_sec]
    /\ UNCHANGED <<wsvars, mvars, bookvars, privvars, infovars, storevars,
                   filtervars, convvars, latevars>>

InitRate ==
    /\ platform \in {"Binance", "BitMEX"}
    /\ cfg_reconnect_count = reconnect_count
    /\ cfg_reconnect_delay_sec = default_reconnect_delay_sec
    /\ sock_limit = MaxSock
    /\ call_limit = MaxCalls
    /\ has_rest_helper = TRUE
    /\ InitClient

NextRate == \E r \in Responses(platform) : OnResponse(r)

SpecRate == InitRate /\ [][NextRate]_vars

\* ------------------------------------------------------- the value lookups
\* A converter translates the values of the canonical enums to the platform's
\* values with param_value_lookup, and the platform's values back with
\* param_value_reversed_lookup, which __init__ derives from the former.  A
\* dict is the list of its items in the order they are written; every value
\* is written as a string, the integers of the enums by their digits.
ConverterNames == {"BinanceREST", "BinanceWS", "BitMEXREST", "BitMEXWS"}

\* ParamName.SORTING, INTERVAL, DIRECTION, ORDER_TYPE, TIME_IN_FORCE,
\* ORDER_STATUS, LEVEL, TRANSACTION_TYPE
ValueParams == {"sorting", "interval", "direction", "order_type",
                "timeInForce", "order_status", "level", "transaction_type"}

\* the values of Sorting, CandleInterval, Direction, OrderType,
\* OrderTimeInForce, OrderStatus, OrderBookDepthLevel, TransactionType
Enum(name) ==
    CASE name = "sorting" -> {"asc", "desc"}
      [] name = "interval" -> {"1s", "2s", "1m", "3m", "5m", "15m", "30m", "1h",
                               "2h", "4h", "6h", "8h", "12h", "1d", "3d", "1w",
                               "1M"}
      [] name = "direction" -> {"1", "2"}
      [] name = "order_type" -> {"1", "2", "10", "3", "11", "12", "13"}
      [] name = "timeInForce" -> {"1", "2", "3", "4"}
      [] name = "order_status" -> {"1", "2", "3", "5", "6", "7", "8"}
      [] name = "level" -> {"light", "medium", "deep", "deepest"}
      [] name = "transaction_type" -> {"1", "2", "3"}

\* the entry outside the tables of the params: Sorting.DEFAULT_SORTING
top_level_lookup == <<<<"default_sorting", "asc">>>>

BinanceREST_param_value_lookup ==
    ("interval" :> <<<<"1m", "1m">>, <<"3m", "3m">>, <<"5m", "5m">>, <<"15m",
        "15m">>, <<"30m", "30m">>, <<"1h", "1h">>, <<"2h", "2h">>, <<"4h",
        "4h">>, <<"6h", "6h">>, <<"8h", "8h">>, <<"12h", "12h">>, <<"1d",
        "1d">>, <<"3d", "3d">>, <<"1w", "1w">>, <<"1M", "1M">>>>)
    @@ ("direction" :> <<<<"1", "SELL">>, <<"2", "BUY">>>>)
    @@ ("order_type" :> <<<<"1", "LIMIT">>, <<"2", "MARKET">>, <<"3",
        "STOP_LOSS">>, <<"11", "STOP_LOSS_LIMIT">>, <<"13", "TAKE_PROFIT">>,
        <<"12", "TAKE_PROFIT_LIMIT">>>>)
    @@ ("timeInForce" :> <<<<"1", "GTC">>, <<"2", "IOC">>, <<"3", "FOK">>>>)
    @@ ("order_status" :> <<<<"2", "NEW">>, <<"3", "PARTIALLY_FILLED">>, <<"5",
        "FILLED">>, <<"6", "CANCELED">>, <<"7", "REJECTED">>, <<"8",
        "EXPIRED">>>>)

BinanceWS_param_value_lookup ==
    ("level" :> <<<<"light", "5">>, <<"medium", "10">>, <<"deep", "20">>,
        <<"deepest", "20">>>>)
    @@ BinanceREST_param_value_lookup

BitMEXREST_param_value_lookup ==
    ("sorting" :> <<<<"asc", "false">>, <<"desc", "true">>>>)
    @@ ("interval" :> <<<<"1m", "1m">>, <<"5m", "5m">>, <<"1h", "1h">>, <<"1d",
        "1d">>>>)
    @@ ("direction" :> <<<<"1", "Sell">>, <<"2", "Buy">>>>)
    @@ ("order_type" :> <<<<"1", "Limit">>, <<"2", "Market">>, <<"3", "Stop">>,
        <<"11", "StopLimit">>, <<"13", "MarketIfTouched">>, <<"12",
        "LimitIfTouched">>>>)
    @@ ("timeInForce" :> <<<<"4", "Day">>, <<"1", "GoodTillCancel">>, <<"2",
        "ImmediateOrCancel">>, <<"3", "FillOrKill">>>>)
    @@ ("transaction_type" :> <<<<"1", "Deposit">>, <<"2", "Withdrawal">>,
        <<"3", "RealisedPNL">>>>)

BitMEXWS_param_value_lookup ==
    ("level" :> <<<<"light", "L2_25">>, <<"medium", "L2_25">>, <<"deep",
        "L2_25">>, <<"deepest", "L2">>>>)
    @@ BitMEXREST_param_value_lookup

\* the class attribute of the BitMEX converters before __init__
BitMEX_param_value_reversed_lookup ==
    ("order_status" :> <<<<"New", "2">>, <<"PartiallyFilled", "3">>,
        <<"Filled", "5">>, <<"DoneForDay", "1">>, <<"Canceled", "6">>,
        <<"PendingCancel", "1">>, <<"PendingNew", "2">>, <<"Rejected", "7">>,
        <<"Expired", "8">>, <<"Stopped", "1">>, <<"Untriggered", "1">>,
        <<"Triggered", "1">>>>)

param_value_lookup(converter) ==
    CASE converter = "BinanceREST" -> BinanceREST_param_value_lookup
      [] converter = "BinanceWS" -> BinanceWS_param_value_lookup
      [] converter = "BitMEXREST" -> BitMEXREST_param_value_lookup
      [] converter = "BitMEXWS" -> BitMEXWS_param_value_lookup

initial_param_value_reversed_lookup(converter) ==
    IF converter \in {"BitMEXREST", "BitMEXWS"}
    THEN BitMEX_param_value_reversed_lookup
    ELSE <<>>

\* dict.get(key, default): the item written last for the key
get(items, key, default) ==
    LET at == {i \in 1..Len(items) : items[i][1] = key}
    IN IF at = {} THEN default
       ELSE items[CHOOSE i \in at : \A j \in at : j <= i][2]

\* {v: k for k, v in value.items()}
Reversed(items) == [i \in 1..Len(items) |-> <<items[i][2], items[i][1]>>]

\* ProtocolConverter.__init__: the tables of the reversed lookup, each the
\* initial table updated with the reversed items of the lookup's table
param_value_reversed_lookup(converter) ==
    LET lookup == param_value_lookup(converter)
        initial == initial_param_value_reversed_lookup(converter)
    IN [name \in DOMAIN lookup \cup DOMAIN initial |->
           (IF name \in DOMAIN initial THEN initial[name] ELSE <<>>)
           \o (IF name \in DOMAIN lookup THEN Reversed(lookup[name]) ELSE <<>>)]

_get_platform_param_value(converter, value, name) ==
    LET lookup == param_value_lookup(converter)
    IN IF name \in DOMAIN lookup
       THEN get(lookup[name], value, value)
       ELSE get(top_level_lookup, value, value)

\* _create_and_set_up_object, for one value of the data
value_from_platform(converter, value, name) ==
    LET lookup == param_value_reversed_lookup(converter)
    IN IF name \in DOMAIN lookup
       THEN get(lookup[name], value, value)
       ELSE get(Reversed(top_level_lookup), value, value)

\* the converter has the value in its table for the param
Translates(converter, name, value) ==
    /\ name \in DOMAIN param_value_lookup(converter)
    /\ \E i \in 1..Len(param_value_lookup(converter)[name]) :
           param_value_lookup(converter)[name][i][1] = value

\* a value goes to the platform in a request and comes back in an item
Translate(converter, name, value) ==
    /\ g_conv' = [converter |-> converter, name |-> name, value |-> value,
                  platform_value |->
                      _get_platform_param_value(converter, value, name),
                  back |-> value_from_platform(
                      converter,
                      _get_platform_param_value(converter, value, name), name)]
    /\ UNCHANGED <<wsvars, mvars, bookvars, privvars, infovars, storevars,
                   filtervars, ratevars, latevars>>

InitConvert ==
    /\ platform \in {"Binance", "BitMEX"}
    /\ cfg_reconnect_count = reconnect_count
    /\ cfg_reconnect_delay_sec = default_reconnect_delay_sec
    /\ sock_limit = MaxSock
    /\ call_limit = MaxCalls
    /\ has_rest_helper = TRUE
    /\ InitClient

NextConvert ==
    \E converter \in ConverterNames, name \in ValueParams :
        \E value \in Enum(name) :
            /\ (platform = "Binance") = (converter \in {"BinanceREST", "BinanceWS"})
            /\ Translate(converter, name, value)

SpecConvert == InitConvert /\ [][NextConvert]_vars

\* ------------------------------------------- answers to subscribe commands
\* The platform answers a subscribe command on the connection it came on:
\* it acknowledges the string ({"success": true, "subscribe": ...}) or
\* rejects it ({"error": ...}) and does not stream it.  _on_message parses
\* the answer to None or to an Error, which on_item_received drops.
Answered(i, sub, ok) ==
    /\ IS_SUBSCRIPTION_COMMAND_SUPPORTED
    /\ tpc[i] = "run" /\ sock[i].st = "open"
    /\ sub \in sock[i].subcmd \cap pending_subscriptions
    /\ sock' = [sock EXCEPT ![i].srv = IF ok THEN @ ELSE @ \ {sub}]
    /\ g_ack' = [sock |-> i, sub |-> sub, ok |-> ok,
                 pending |-> sub \in pending_subscriptions,
                 successful |-> sub \in successful_subscriptions,
                 failed |-> sub \in failed_subscriptions]
    /\ UNCHANGED <<config, mvars, bookvars, privvars, infovars, storevars,
                   filtervars, ratevars, convvars, throttlevars, tablevars, tpc, tcopy,
                   upc, ucalls, ghosts, current_subscriptions, pending_subscriptions,
                   successful_subscriptions, failed_subscriptions,
                   symbols_by_endpoint, stored, is_private, is_started,
                   is_reconnecting, reconnect_tries, reconnect_delay_sec,
                   is_subscribed_with_url, ws, queue, nsock>>

NextAnswers ==
    \/ \E a \in UserArgs : UserSubscribe(a)
    \/ \E a \in UserArgs : UserUnsubscribe(a)
    \/ UserConnect
    \/ \E i \in SockIds : Opened(i)
    \/ \E i \in SockIds : OnOpenSubscribe(i)
    \/ \E i \in SockIds : Closed(i)
    \/ \E i \in SockIds : OnCloseReconnect(i)
    \/ \E i \in SockIds : OnCloseConnect(i)
    \/ \E i \in SockIds, sub \in AllSubs, ok \in BOOLEAN : Answered(i, sub, ok)

SpecAnswers == InitCalls /\ [][NextAnswers]_vars

\* -------------------------------- messages of the one active subscription
\* Binance names no stream in the messages of a connection with one stream.
\* Such a message arrives on the open connection of a client that has one
\* public subscription, after the user's calls; the converter looks into
\* the subscriptions that the subscribe calls have stored.
SingleStreamMessage(i, from) ==
    /\ platform = "Binance"
    /\ tpc[i] = "run" /\ sock[i].st = "open"
    /\ current_subscriptions = {from} /\ sock[i].srv = {from}
    /\ from[1] \in PublicEndpoints
    /\ \A sub \in stored : sub[1] \in PublicEndpoints
    /\ g_info' = [stored |-> stored, from |-> from, id |-> FALSE,
                  out |-> get_subscription_info(stored, from, FALSE)]
    /\ UNCHANGED <<wsvars, mvars, bookvars, privvars, storevars, filtervars,
                   ratevars, convvars, latevars>>

NextSingle ==
    \/ \E a \in UserArgs : UserSubscribe(a)
    \/ \E a \in UserArgs : UserUnsubscribe(a)
    \/ UserConnect
    \/ \E i \in SockIds : Opened(i)
    \/ \E i \in SockIds : OnOpenSubscribe(i)
    \/ \E i \in SockIds : Closed(i)
    \/ \E i \in SockIds : OnCloseReconnect(i)
    \/ \E i \in SockIds : OnCloseConnect(i)
    \/ \E i \in SockIds, from \in AllSubs : SingleStreamMessage(i, from)

SpecSingle == InitCalls /\ [][NextSingle]_vars

\* ----------------------------------------------------------- table rows
\* BitMEXWSConverterV1.data as the lists the code keeps.  MAX_TABLE_LEN is
\* 500 in the source; the model keeps the code's arithmetic on a table of 4.
MAX_TABLE_LEN == 4
UntrimmedTables == {"order", "orderBookL2", "orderBookL2_25"}
RowValues == {"a", "b"}
Batches == UNION {[1..n -> RowValues] : n \in 1..MaxBatch}

\* list[n:]
Tail_from(list, n) == SubSeq(list, n + 1, Len(list))

\* handle_data_table's "partial" and "insert" branches on the table's list
handle_rows(list, table, action, rows) ==
    CASE action = "partial" -> list \o rows
      [] action = "insert" ->
            IF table \notin UntrimmedTables
               /\ Len(list \o rows) > MAX_TABLE_LEN
            THEN Tail_from(list \o rows, MAX_TABLE_LEN \div 2)
            ELSE list \o rows

\* the rows of all tables
Stored == Len(data["trade"]) + Len(data["order"])

\* a "partial" or "insert" message of a table arrives
OnTableRows(table, action, rows) ==
    /\ platform = "BitMEX"
    /\ Stored + Len(rows) <= MaxStored
    /\ data' = [data EXCEPT ![table] = handle_rows(@, table, action, rows)]
    /\ g_table' = [table |-> table, action |-> action, rows |-> rows,
                   before |-> data[table]]
    /\ UNCHANGED <<wsvars, mvars, bookvars, privvars, infovars, storevars,
                   filtervars, ratevars, convvars, ackvars, throttlevars>>

InitTable ==
    /\ platform = "BitMEX"
    /\ cfg_reconnect_count = reconnect_count
    /\ cfg_reconnect_delay_sec = default_reconnect_delay_sec
    /\ sock_limit = MaxSock
    /\ call_limit = MaxCalls
    /\ has_rest_helper = TRUE
    /\ InitClient

NextTable ==
    \E table \in TableNames, action \in {"partial", "insert"}, rows \in Batches :
        OnTableRows(table, action, rows)

SpecTable == InitTable /\ [][NextTable]_vars

\* --------------------------------------------------------------- throttle
\* reconnect() calls throttle() between close() and connect().  The wall
\* clock advances by minutes; datetime.now().minute is the minute of the
\* hour.  Delays are in milliseconds, rounded down.
MinutesPerHour == 60
THROTTLE_MAX_DELAY == 60

minute_of(time) == time % MinutesPerHour

\* math.log10(attempts) for the attempts that the bounds reach
log10(attempts) == <<0, 301, 477, 602, 698, 778, 845>>[attempts]

\* throttle(): the counter it leaves and the delay it sleeps
throttle(counter, minute) ==
    LET count == IF counter[1] = minute THEN counter[2] + 1 ELSE 0
        attempts == IF count < THROTTLE_MAX_DELAY - 1
                    THEN count ELSE THROTTLE_MAX_DELAY - 1
    IN [counter |-> <<minute, count>>,
        delay |-> IF count # 0 THEN log10(attempts) ELSE 0]

\* a reconnect: g_throttle notes how many reconnects the current minute had
\* before it and the delay of each such number
Throttle ==
    /\ g_throttle.in_minute < MaxPerMinute
    /\ LET r == throttle(throttle_counter, minute_of(now)) IN
        /\ throttle_counter' = r.counter
        /\ g_throttle' = [in_minute |-> g_throttle.in_minute + 1,
                          before |-> g_throttle.in_minute,
                          delay |-> r.delay,
                          seen |-> [g_throttle.seen EXCEPT
                                       ![g_throttle.in_minute] =
                                           IF @ = NoDelay THEN r.delay ELSE @]]
    /\ UNCHANGED <<wsvars, mvars, bookvars, privvars, infovars, storevars,
                   filtervars, ratevars, convvars, ackvars, tablevars, now>>

\* the minute changes
Tick ==
    /\ now < MaxNow
    /\ now' = now + 1
    /\ g_throttle' = [g_throttle EXCEPT !.in_minute = 0, !.delay = NoDelay]
    /\ UNCHANGED <<wsvars, mvars, bookvars, privvars, infovars, storevars,
                   filtervars, ratevars, convvars, ackvars, tablevars,
                   throttle_counter>>

InitThrottle ==
    /\ platform \in Platforms
    /\ cfg_reconnect_count = reconnect_count
    /\ cfg_reconnect_delay_sec = default_reconnect_delay_sec
    /\ sock_limit = MaxSock
    /\ call_limit = MaxCalls
    /\ has_rest_helper = TRUE
    /\ InitClient

NextThrottle == Throttle \/ Tick

SpecThrottle == InitThrottle /\ [][NextThrottle]_vars

\* ------------------------------------------------- the calls of the interface
\* The user calls subscribe, unsubscribe, resubscribe and close with every
\* kind of argument, on a client with or without the REST helper that
\* credentials give a Binance client; connections open, and those the
\* client closes are handled; the platform drops none.  Each call is
\* observed: what it found, what it sent, what it left when it returned.
InitApi ==
    /\ platform \in Platforms
    /\ cfg_reconnect_count = reconnect_count
    /\ cfg_reconnect_delay_sec = default_reconnect_delay_sec
    /\ sock_limit = MaxSock
    /\ call_limit = MaxApiCalls
    /\ has_rest_helper \in (IF platform = "Binance" THEN BOOLEAN ELSE {TRUE})
    /\ InitClient

ApiSubscribe(a) ==
    Subscribing(a) /\ g_call' = Called("subscribe", a, subscribe(St, a))

ApiUnsubscribe(a) ==
    Unsubscribing(a) /\ g_call' = Called("unsubscribe", a, unsubscribe(St, a))

ApiClose == Closing /\ g_call' = Called("close", NoArgs, close(St))

ApiResubscribe ==
    /\ upc = "idle" /\ ucalls < call_limit
    /\ LET c == resubscribe(St) IN
        /\ Set(c)
        /\ upc' = UserPc(c.k)
        /\ g_call' = Called("resubscribe", NoArgs, c)
    /\ ucalls' = ucalls + 1
    /\ user_closed' = FALSE
    /\ g_pair' = NoPair
    /\ UNCHANGED <<config, mvars, rvars, tpc, tcopy, intended, g_open, g_close, g_attempts,
                   g_data, g_raced>>

\* resubscribe() after the throttle of its unsubscribe(): connect(), subscribe()
ApiResubscribeConnect ==
    /\ upc = "resubscribe_throttle" /\ CanConnect(St)
    /\ LET c == [WSClient_subscribe(connect(St), NoArgs) EXCEPT !.ret = "None"] IN
        /\ Set(c)
        /\ tpc' = Threads(c, tpc)
        /\ upc' = UserPc(c.k)
        /\ g_call' = Continued(g_call, c)
    /\ UNCHANGED <<config, mvars, rvars, tcopy, ucalls, intended, user_closed, g_open,
                   g_close, g_attempts, g_pair, g_data, g_raced>>

ApiConnect == Connecting /\ g_call' = Continued(g_call, connect(St))

NextApi ==
    \/ \E a \in ApiArgs : ApiSubscribe(a)
    \/ \E a \in ApiArgs : ApiUnsubscribe(a)
    \/ ApiResubscribe
    \/ ApiResubscribeConnect
    \/ ApiClose
    \/ ApiConnect
    \/ \E i \in SockIds : Opened(i)
    \/ \E i \in SockIds : OnOpenSubscribe(i)
    \/ \E i \in SockIds : OnOpenConnect(i)
    \/ \E i \in SockIds : Closed(i)
    \/ \E i \in SockIds : OnCloseReconnect(i)
    \/ \E i \in SockIds : OnCloseConnect(i)

SpecApi == InitApi /\ [][NextApi]_vars

\* ------------------------------------------- private and public endpoints
\* A Binance client with credentials; subscribe is called with one endpoint
\* or with a private endpoint together with one that is not private.
MixedArgs ==
    UserArgs \cup {[e |-> {r, u}, s |-> {s}] :
                      r \in PrivateEndpoints,
                      u \in PublicEndpoints \cup SymbolFreeEndpoints,
                      s \in Symbols}

InitMixed ==
    /\ platform = "Binance"
    /\ cfg_reconnect_count = reconnect_count
    /\ cfg_reconnect_delay_sec = default_reconnect_delay_sec
    /\ sock_limit = MaxSock
    /\ call_limit = MaxApiCalls
    /\ has_rest_helper = TRUE
    /\ InitClient

\* the connect() that ends the reconnect() of the private branch of
\* BinanceWSClient.subscribe, and the raise of its public branch
ApiConnectRaise ==
    /\ upc = "raise_throttle" /\ CanConnect(St)
    /\ LET c == [connect(St) EXCEPT !.ret = "raise"] IN
        /\ Set(c)
        /\ tpc' = Threads(c, tpc)
        /\ g_call' = Continued(g_call, c)
    /\ upc' = "idle"
    /\ UNCHANGED <<config, mvars, rvars, tcopy, ucalls, intended, user_closed,
                   g_open, g_close, g_attempts, g_pair, g_data, g_raced>>

NextMixed ==
    \/ \E a \in MixedArgs : ApiSubscribe(a)
    \/ \E a \in UserArgs \cup {NoArgs} : ApiUnsubscribe(a)
    \/ ApiClose
    \/ ApiConnect
    \/ ApiConnectRaise
    \/ \E i \in SockIds : Opened(i)
    \/ \E i \in SockIds : Closed(i)
    \/ \E i \in SockIds : OnCloseReconnect(i)
    \/ \E i \in SockIds : OnCloseConnect(i)

SpecMixed == InitMixed /\ [][NextMixed]_vars

\* ------------------------------------------------------------------ claims
\* C1: current_subscriptions always equals the set obtained by applying the
\* user's subscribe and unsubscribe calls in order; connection events never
\* add or remove a string.
C1_FollowsUserCalls == current_subscriptions = intended

\* C2: starting from the empty set, subscribe(e, s) followed by
\* unsubscribe(e, s) with the same arguments leaves current_subscriptions
\* empty when the unsubscribe returns, on every platform and for public and
\* private endpoints.
C2_SubscribeUnsubscribeEmpty == g_pair.phase = "returned" => g_pair.empty

\* C3: every item handed to on_data carries a subscription string that is in
\* current_subscriptions at the moment of delivery.
C3_DeliveredIsSubscribed == g_data # "unsubscribed"

\* C4: on a command-capable platform whose url does not carry the
\* subscriptions, when _on_open has completed on a socket that is open, a
\* subscribe command has been sent on that socket for every string of
\* current_subscriptions.
C4_OpenResendsAll == g_open.missing = {}

\* the strings WebSocketApp i was opened with or was sent in a subscribe command
SubscribedOn(i) == sock[i].url \cup sock[i].subcmd

\* the connection of self.ws is open, its _on_open and the user's call returned
Settled ==
    /\ ws # 0 /\ sock[ws].st = "open" /\ tpc[ws] = "run"
    /\ upc = "idle"

LiveSockets ==
    {i \in SockIds : sock[i].st \in {"connecting", "open"} \/ sock[i].orphan}

\* C6: at most one live socket exists at any time, under every interleaving
\* of the user's calls and the connection events.
C6_OneLiveSocket == Cardinality(LiveSockets) <= 1

\* C7: after the user's close() has returned and until the user's next call,
\* the client is not started and has no socket.
C7_ClosedStaysClosed == user_closed => (~is_started /\ ws = 0)

\* C8: while the client is started, every close event leads to a reconnect
\* attempt, whatever reconnect_count is.
C8_StartedAlwaysReconnects == g_close.started => g_close.reconnect

\* a close event of a started client that has used up reconnect_count tries
C8_Witness ==
    /\ cfg_reconnect_count = reconnect_count
    /\ g_close.started /\ g_close.reconnect
    /\ g_close.tries >= cfg_reconnect_count

\* C9: after N >= 1 consecutive close events without an open, the delay
\* slept before the next attempt is base * 2^min(N, cap), base being the
\* configured reconnect_delay_sec.
C9_BackoffIsBaseTimesPower ==
    (g_close.reconnect /\ g_close.tries >= 1)
        => g_close.slept
             = cfg_reconnect_delay_sec * Pow2(Min(g_close.tries, BackoffCap))

\* C10: the first reconnect attempt after construction or after a successful
\* open sleeps no backoff delay.
C10_FirstAttemptNoDelay ==
    (g_close.reconnect /\ g_close.first) => g_close.slept = 0

\* the first attempt after an open that itself followed a backoff sleep
C10_Witness ==
    /\ g_close.reconnect /\ g_close.first /\ g_close.slept = 0
    /\ g_close.sock > 1
    /\ cfg_reconnect_delay_sec > 0
    /\ reconnect_delay_sec # cfg_reconnect_delay_sec

\* the arguments of the subscribe commands a call passed to _send
SentSubscribe(sent) ==
    UNION {sent[n].args : n \in {m \in DOMAIN sent : sent[m].op = "subscribe"}}

\* C11: on a started client of a command-capable platform, the subscribe
\* command of subscribe(endpoints, symbols) names exactly the requested
\* strings that were not in current_subscriptions, and a call that adds
\* nothing new sends nothing.
C11_SendsOnlyDelta ==
    (/\ g_call.op = "subscribe" /\ g_call.a \in UserArgs
     /\ g_call.started /\ IS_SUBSCRIPTION_COMMAND_SUPPORTED
     /\ g_call.phase = "returned")
        => /\ SentSubscribe(g_call.sent)
                = generate_subscriptions(g_call.a.e, g_call.a.s) \ g_call.before
           /\ (generate_subscriptions(g_call.a.e, g_call.a.s) \subseteq g_call.before
                   => g_call.sent = <<>>)

\* C12: on the platform whose url carries the subscriptions, a subscribe or
\* unsubscribe call that changed current_subscriptions has, when it ends,
\* closed the connection it found and opened a new one whose url carries
\* exactly current_subscriptions; when the set became empty the client is
\* not started.  Calls for private endpoints count on a client that has the
\* credentials for them.
C12_ChangeReconnects ==
    (/\ platform = "Binance"
     /\ g_call.op \in {"subscribe", "unsubscribe"}
     /\ g_call.phase \in {"returned", "raised"}
     /\ (g_call.a.e \cap PrivateEndpoints = {} \/ has_rest_helper)
     /\ g_call.post.cur # g_call.before)
        => /\ g_call.ws # 0 => g_call.post.old = "closed"
           /\ g_call.post.cur # {}
                 => (g_call.post.ws > g_call.nsock
                     /\ g_call.post.url = g_call.post.cur)
           /\ g_call.post.cur = {} => ~g_call.post.started

\* C13: after resubscribe() has returned on a command-capable platform,
\* current_subscriptions equals its value before the call, a subscribe
\* command has been sent for every one of those strings, and the client
\* still has the connection it had.
C13_ResubscribeKeepsAll ==
    (/\ g_call.op = "resubscribe" /\ IS_SUBSCRIPTION_COMMAND_SUPPORTED
     /\ g_call.phase = "returned")
        => /\ g_call.post.cur = g_call.before
           /\ g_call.before \subseteq SentSubscribe(g_call.sent)
           /\ g_call.started => g_call.post.ws = g_call.ws

\* C14: subscribe() returns a set of subscription strings for every input
\* and on every platform client: never None, never an exception, also when
\* no requested endpoint is supported.
C14_SubscribeReturnsSet ==
    (g_call.op = "subscribe" /\ g_call.phase \in {"returned", "raised"})
        => g_call.ret = "set"

\* C15: subscribe() without endpoints and symbols leaves every string the
\* user's earlier subscribe calls named in current_subscriptions, those an
\* unsubscribe() removed included, and subscribes to something when no
\* string was named before.
C15_SubscribeNoneIsAllKnown ==
    (/\ g_call.op = "subscribe" /\ g_call.a = NoArgs
     /\ g_call.phase \in {"returned", "raised"})
        => /\ g_call.known \subseteq g_call.post.cur
           /\ g_call.known = {} => g_call.post.cur # {}

\* the strings unsubscribe(endpoints, symbols) is to remove
Removing(g) ==
    IF g.a = NoArgs THEN g.before
    ELSE generate_subscriptions(g.a.e \cap supported_endpoints, g.a.s)

\* C16: when unsubscribe(endpoints, symbols) has returned, none of the
\* strings of the requested combination is in current_subscriptions,
\* pending_subscriptions, successful_subscriptions or failed_subscriptions,
\* and the call removed no other string from those sets.
C16_UnsubscribeRemovesExactly ==
    (g_call.op = "unsubscribe" /\ g_call.phase = "returned")
        => /\ Removing(g_call) \cap (g_call.post.cur \cup g_call.post.pend
                                      \cup g_call.post.done \cup g_call.post.failed) = {}
           /\ g_call.frame

\* C17: close() on a client that is not started, never started or already
\* closed, changes no state and raises nothing.
C17_CloseIsIdempotent ==
    (g_call.op = "close" /\ ~g_call.started)
        => (g_call.same /\ g_call.ret # "raise")

\* a second close() in a row, on a client that had connected, while the
\* thread of its connection has not yet handled the close event
C17_Witness ==
    /\ g_call.op = "close" /\ ~g_call.started /\ g_call.same
    /\ g_call.nsock > 0 /\ user_closed
    /\ \E i \in SockIds : tpc[i] = "run" /\ sock[i].st = "closed"

C19_OneBatchOfItsItems ==
    (g_msg.phase = "done" /\ g_msg.kind \in {"data", "table"})
        => /\ g_msg.items = g_msg.parsed
           /\ g_msg.ondata = (IF g_msg.items = <<>> THEN 0 ELSE 1)
           /\ g_msg.items # <<>> => g_msg.batch = g_msg.items

\* C20: invalid JSON, a payload that parses to nothing, and a table
\* operation that arrives before the table's snapshot or names an unknown
\* row, are dropped: no exception leaves _on_message, and no callback is
\* invoked for a message that is not JSON or is empty.
C20_BadMessageIsDropped ==
    /\ g_msg.phase # "raised"
    /\ (g_msg.phase = "done" /\ g_msg.kind \in {"invalid", "empty"})
           => (g_msg.items = <<>> /\ g_msg.ondata = 0)

\* C21: when _on_message has gone through an error frame, the Error it was
\* converted to has been passed to the per-item callback and is the batch
\* passed to on_data.
C21_ErrorIsDelivered ==
    (g_msg.phase = "done" /\ g_msg.kind = "error")
        => /\ g_msg.items = <<ErrorItem>>
           /\ g_msg.ondata = 1
           /\ g_msg.batch = <<ErrorItem>>

\* C22: after the snapshot, every book emitted is the platform's current
\* book: the snapshot with all operations applied in order, so that an
\* updated row has its new size, a deleted row is absent and an inserted
\* row is present, among the asks and among the bids.
C22_EmittedBookIsCurrent ==
    g_book.out # None
        => /\ asks(g_book.out) = asks(g_book.ref)
           /\ bids(g_book.out) = bids(g_book.ref)

\* C23: of the items a message of the private stream fans out into, none
\* whose endpoint the caller has not subscribed to is delivered.
C23_OnlySubscribedPrivateItems ==
    \A j \in 1..Len(g_priv.out) : g_priv.out[j] \in g_priv.subs

\* C24: with more than one subscription and a message that carries no
\* subscription identifier, get_subscription_info does not raise, and the
\* subscription it returns is the message's own or none.
C24_NoMisattribution ==
    (Cardinality(g_info.stored) > 1 /\ ~g_info.id)
        => /\ g_info.out.ret # "raise"
           /\ g_info.out.sub \in {None, g_info.from}

\* C25: every subscription string that subscribe has generated maps through
\* endpoint_symbol_params_by_subscription to its own endpoint and symbol,
\* with the params it was rendered from: its own single interval.
C25_ReverseLookupIsOwnTriple ==
    \A key \in CandleKeys :
        endpoint_symbol_params_by_subscription[key] # None
            => endpoint_symbol_params_by_subscription[key]
                   = <<key[1], key[2], [interval |-> key[3]]>>

\* the positions first..last as a list
Slice(first, last) == [k \in 1..(last - first + 1) |-> first + k - 1]

\* C26: the result of range filtering is the slice between the bounds:
\* list[i..j] for from_item = list[i] and to_item = list[j] with i <= j
\* (the single element for i = j), list[i..] for from_item alone, the list
\* itself without bounds.
C26_FilterIsSlice ==
    LET f == g_filter.from
        t == g_filter.to
        n == Len(g_filter.ts)
    IN n > 0 =>
        /\ (f # 0 /\ t # 0 /\ f <= t) => g_filter.out = Slice(f, t)
        /\ (f # 0 /\ t = 0) => g_filter.out = Slice(f, n)
        /\ (f = 0 /\ t = 0) => g_filter.out = Slice(1, n)

\* C27: the fetch with from_item and to_item exchanged has the same result.
C27_FilterIsOrderIndependent ==
    (g_filter.from # 0 /\ g_filter.to # 0)
        => g_filter.out = g_filter.swapped

\* C28: no public client operation raises to its caller: a failed call
\* (unsupported parameter, conflicting subscription request, ...) ends by
\* returning, never by an exception.
C28_NoOperationRaises == g_call.phase # "raised"

\* C29: over consecutive rate-limit or IP-ban results the recommended
\* delay_before_next_request_sec never decreases from one response to the
\* next.
C29_DelayNeverDecreases ==
    (g_rate.code \in RateLimitCodes /\ g_rate.prev_code \in RateLimitCodes)
        => delay_before_next_request_sec >= g_rate.prev_delay

\* C30: a value of a canonical enum that the converter translates is the
\* value again after it is translated to the platform's value and back.
C30_RoundTripIsIdentity ==
    (g_conv.converter # "none"
     /\ Translates(g_conv.converter, g_conv.name, g_conv.value))
        => g_conv.back = g_conv.value

\* the arguments of the unsubscribe commands a call passed to _send
SentUnsubscribe(sent) ==
    UNION {sent[n].args : n \in {m \in DOMAIN sent : sent[m].op = "unsubscribe"}}

\* C31: on a started client of a command-capable platform, the unsubscribe
\* command of unsubscribe() names every removed string that the platform
\* streams on the current connection, subscribed through the url or by an
\* earlier subscribe command.
C31_UnsubscribeNamesSubscribed ==
    (/\ g_call.op = "unsubscribe" /\ g_call.started
     /\ IS_SUBSCRIPTION_COMMAND_SUPPORTED
     /\ g_call.phase = "returned")
        => (Removing(g_call) \cap g_call.srv)
               \subseteq SentUnsubscribe(g_call.sent)

\* C32: after every close event on a command-capable platform,
\* pending_subscriptions is empty: no string awaits an ack of the closed
\* connection.
C32_CloseClearsPending ==
    [][(g_close' # g_close /\ IS_SUBSCRIPTION_COMMAND_SUPPORTED)
           => pending_subscriptions' = {}]_vars

\* C33: a string the platform acknowledges moves from pending_subscriptions
\* to successful_subscriptions, and a string it rejects moves to
\* failed_subscriptions.
C33_AnswerMovesPending ==
    g_ack.sub # None
        => /\ ~g_ack.pending
           /\ g_ack.ok => g_ack.successful
           /\ ~g_ack.ok => g_ack.failed

\* C34: a message without a subscription identifier that arrives while
\* exactly one subscription is active is attributed to that subscription,
\* whatever subscribe and unsubscribe calls came before.
C34_SingleSubscriptionIsAssumed ==
    g_info.from # None => g_info.out = Returned(g_info.from)

\* C35: the throttle delay before a reconnect depends only on the number of
\* reconnects that the current wall-clock minute already had: it is zero
\* for the first reconnect of a minute, the same for the same number in
\* every minute, and never less than for a smaller number.
C35_DelayFollowsMinuteCount ==
    g_throttle.delay # NoDelay
        => /\ g_throttle.before = 0 => g_throttle.delay = 0
           /\ g_throttle.delay = g_throttle.seen[g_throttle.before]
           /\ \A k \in 0..g_throttle.before :
                  g_throttle.seen[k] <= g_throttle.delay

\* C36: after an insert into a table other than the order and order-book
\* tables the stored list has at most MAX_TABLE_LEN rows and is the newest
\* end of what was there followed by the inserted rows; an insert into an
\* order or order-book table keeps every row
C36_InsertKeepsNewestWithinLimit ==
    g_table.action = "insert"
        => LET all == g_table.before \o g_table.rows
               kept == data[g_table.table]
           IN IF g_table.table \in UntrimmedTables
              THEN kept = all
              ELSE /\ Len(kept) <= MAX_TABLE_LEN
                   /\ kept = Tail_from(all, Len(all) - Len(kept))

\* C39: after a snapshot message the stored list is the snapshot's rows
C39_SnapshotReplacesTable ==
    g_table.action = "partial" => data[g_table.table] = g_table.rows

\* C37: on a connection no subscription string is named by a subscribe
\* command while an earlier subscribe command of that connection for it is
\* in force: what the queue flushes on open and what the on-open
\* resubscription sends do not overlap
C37_SubscribedOncePerConnection ==
    \A i \in SockIds : sock[i].twice = {}

PrivateStrings(S) == {x \in S : x[1] \in PrivateEndpoints}

\* the subscribe call g raised in one of the two tests of is_private
RejectedForMixing(g) ==
    /\ g.op = "subscribe" /\ g.phase = "raised" /\ g.a # NoArgs
    /\ \/ (g.a.e \cap PrivateEndpoints # {} /\ g.private = "False")
       \/ (g.a.e \cap PrivateEndpoints = {} /\ g.private = "True")
       \/ (g.a.e \cap PrivateEndpoints # {} /\ g.a.e \ PrivateEndpoints # {}
           /\ g.private # "False" /\ ~FormatRaises(g.a.e))

\* C38: current_subscriptions of a Binance client never holds private and
\* public strings together, and a subscribe call rejected for mixing private
\* and public endpoints leaves current_subscriptions, is_private and the
\* connection as it found them
C38_PrivateAndPublicNeverMix ==
    platform = "Binance"
        => /\ PrivateStrings(current_subscriptions) \in {{}, current_subscriptions}
           /\ RejectedForMixing(g_call)
                  => /\ g_call.post.cur = g_call.before
                     /\ g_call.post.private = g_call.private
                     /\ g_call.post.ws = g_call.ws

\* C40: the connect() that ends an unsubscribe() called on a client that was
\* not started creates no WebSocketApp: the call opens no connection
C40_UnsubscribeOpensNothing ==
    [][(g_call.op = "unsubscribe" /\ ~g_call.started
        /\ upc = "throttle" /\ upc' = "idle")
           => nsock' = nsock]_vars
====
